---------------------------- MODULE Spec2Model ----------------------------
(***************************************************************************)
(* A model of the retis event pipeline: the CLI probe parser, TimeSpec     *)
(* arithmetic, the indenting Formatter and the process-wide tcpdump        *)
(* dispatcher used to render raw packets.                                  *)
(*                                                                         *)
(* Text is a sequence of one-character strings, so that splitting,         *)
(* counting and prefixing are computed character by character as the code  *)
(* does.                                                                   *)
(***************************************************************************)
EXTENDS Integers, Sequences, FiniteSets, TLC

VARIABLES
    cliInput,     \* the argument of the last parse_cli_probe call
    cliResult,    \* what that call returned
    tsA, tsB,     \* two TimeSpec operands
    tsR,          \* the result of the last TimeSpec operation
    tsOp,         \* the last TimeSpec operation and, for new, its arguments
    tsDepth,      \* how many results were fed back as operands
    fPc,          \* Formatter: "none" (not created), "live" or "dropped"
    fInner,       \* Formatter.inner: what reached the underlying sink
    fConf,        \* Formatter.conf: [level, saved_levels]
    fLevel,       \* Formatter.level
    fStart,       \* Formatter.start
    fBuf,         \* Formatter.buf
    fInput,       \* every character given to write_str, with conf.level then
    pc,           \* renderer -> where it is in SkbEvent::event_fmt
    pkt,          \* renderer -> the packet (event number) it renders, 0: none
    out,          \* renderer -> what the packet part of its event wrote to f
    ret,          \* renderer -> [err: display_event's error, res: event_fmt's result]
    nEvents,      \* events handed to the renderers so far
    cell,         \* TCPDUMP: "empty" or "set"
    child,        \* the child held by the dispatcher in TCPDUMP, 0: none
    nSpawned,     \* children spawned by Tcpdump::new so far
    initFailedAt, \* the events started when Tcpdump::new first failed, 0: never
    mutex,        \* Tcpdump.command: [holder, poisoned]
    childAlive,   \* whether the child of the dispatcher runs
    stdin,        \* what was written to that child's stdin
    todo,         \* output the child has produced and not yet written
    pipe,         \* bytes of the child's stdout not yet read
    printer,      \* the sink in use: "none", "single" (PrintSingle) or "series"
    prFormat,     \* its format: "SingleLine", "MultiLine" (text) or "Json"
    prEvents,     \* PrintSingle: the events given to process_one, in call order
    prWriter,     \* PrintSingle: what was written to the writer
    srPc,         \* PrintSeries::process_one: "idle", "loop" or "done"
    srGroup,      \* the events of the series processed so far
    srContent,    \* the local content
    srIndent,     \* the local indent
    srWritten,    \* what the call wrote to the writer
    prOffset,     \* monotonic_offset of the sink's DisplayFormat
    prLast,       \* the last event rendered as text: its MdCommon and the offset used
    usdt,         \* the UsdtBuilder: [links, map_fds, hooks]
    usdtLast,     \* its last call: [op, args, res, pre: the builder before]
    usdtPrev,     \* the call before that one
    usdtInitCalled,   \* whether init was ever called on the builder
    usdtDetachCalled, \* whether detach was ever called on the builder
    insPc,        \* inspect_symbol: "idle", the field being looked for, "done", "failed"
    insDrop,      \* drop_reason_offset: the index of the type being looked for
    insSym,       \* the symbol: drop reason type -> what parameter_offset returns
    insCfg,       \* cfg.offsets
    insSeen,      \* the parameter_offset calls made: [type, result]
    cConf,        \* a FormatterConf: [level, saved_levels]
    cLast,        \* the last call on it: [op, diff, pre: the conf before]
    cPrev,        \* the call before that one
    cMatch,       \* the levels in effect before the inc_level calls not yet reset
    ipRaw,        \* the argument of parse_ipv4_addr: [hi, lo], its 16-bit halves
    ipRes,        \* what it returned: [st, addr]
    skPc,         \* SkbEvent::event_fmt: the section it is at, "idle" or "done"
    skEvent,      \* the SkbEvent being formatted
    skFormat,     \* the DisplayFormat: [multiline, print_ll]
    skSpace,      \* the DelimWriter space: [delim, first]
    skOut,        \* what was written to f
    skWrites,     \* calls of space.write since its creation or last reset
    skEmitted     \* what each call of space.write, in order, wrote: [n, text]

cliVars == <<cliInput, cliResult>>
timeVars == <<tsA, tsB, tsR, tsOp, tsDepth>>
fmtVars == <<fPc, fInner, fConf, fLevel, fStart, fBuf, fInput>>
sinkVars == <<printer, prFormat, prEvents, prWriter, srPc, srGroup, srContent,
              srIndent, srWritten, prOffset, prLast>>
usdtVars == <<usdt, usdtLast, usdtPrev, usdtInitCalled, usdtDetachCalled>>
inspectVars == <<insPc, insDrop, insSym, insCfg, insSeen>>
confVars == <<cConf, cLast, cPrev, cMatch>>
ipVars == <<ipRaw, ipRes>>
skbVars == <<skPc, skEvent, skFormat, skSpace, skOut, skWrites, skEmitted>>
textVars == <<confVars, ipVars, skbVars>>
pcapVars == <<pc, pkt, out, ret, nEvents, cell, child, nSpawned, initFailedAt, mutex, childAlive,
              stdin, todo, pipe>>
vars == <<cliInput, cliResult, tsA, tsB, tsR, tsOp, tsDepth,
          fPc, fInner, fConf, fLevel, fStart, fBuf, fInput,
          pc, pkt, out, ret, nEvents, cell, child, nSpawned, initFailedAt, mutex, childAlive,
          stdin, todo, pipe,
          printer, prFormat, prEvents, prWriter, srPc, srGroup, srContent,
          srIndent, srWritten, prOffset, prLast,
          usdt, usdtLast, usdtPrev, usdtInitCalled, usdtDetachCalled,
          insPc, insDrop, insSym, insCfg, insSeen,
          cConf, cLast, cPrev, cMatch, ipRaw, ipRes,
          skPc, skEvent, skFormat, skSpace, skOut, skWrites, skEmitted>>

(***************************************************************************)
(* Bounds of the model.                                                    *)
(***************************************************************************)
MaxInputLen == 4      \* length of the enumerated probe strings
MaxTargetLen == 2     \* length of the target after a long type name
MaxSec == 2           \* seconds are drawn from -MaxSec..MaxSec
MaxChain == 1         \* results fed back as operands
MaxLevel == 2         \* indentation level of a new Formatter
MaxDiff == 1          \* argument of inc_level
MaxSaved == 1         \* depth of saved_levels
MaxWriteLen == 2      \* characters of one write_str
MaxText == 3          \* characters written to one Formatter
NRenderers == 2       \* threads rendering events
MaxEvents == 2        \* events rendered in all
MaxLines == 2         \* lines of the text of one event
MaxGroup == 2         \* events of one series
MaxCalls == 2         \* events given to one PrintSingle
MaxLinks == 2         \* links held by one UsdtBuilder
MaxConfDepth == 3     \* inc_level calls not yet reset on a FormatterConf
MaxConfDiff == 2      \* argument of inc_level on a FormatterConf

(***************************************************************************)
(* Text helpers.                                                           *)
(***************************************************************************)
Strings(alphabet, n) == UNION {[1..k -> alphabet] : k \in 0..n}

\* The number of characters of s equal to c: s.chars().filter(..).count().
RECURSIVE CountChar(_, _)
CountChar(s, c) ==
    IF s = <<>> THEN 0
    ELSE (IF Head(s) = c THEN 1 ELSE 0) + CountChar(Tail(s), c)

\* The index of the first c in s, 0 when there is none.
RECURSIVE FirstIndexFrom(_, _, _)
FirstIndexFrom(s, c, i) ==
    IF i > Len(s) THEN 0
    ELSE IF s[i] = c THEN i
    ELSE FirstIndexFrom(s, c, i + 1)

\* The index of the last c in s, 0 when there is none.
RECURSIVE LastIndexFrom(_, _, _)
LastIndexFrom(s, c, i) ==
    IF i < 1 THEN 0
    ELSE IF s[i] = c THEN i
    ELSE LastIndexFrom(s, c, i - 1)

SplitAt(s, i) ==
    IF i = 0 THEN [found |-> FALSE, before |-> s, after |-> <<>>]
    ELSE [found |-> TRUE,
          before |-> SubSeq(s, 1, i - 1),
          after |-> SubSeq(s, i + 1, Len(s))]

\* A variant of split_once that splits at the last delimiter (str::rsplit_once).
RSplitOnce(s, c) == SplitAt(s, LastIndexFrom(s, c, Len(s)))

\* str::split_once: the text before and after the first delimiter.
SplitOnce(s, c) == SplitAt(s, FirstIndexFrom(s, c, 1))

(***************************************************************************)
(* parse_cli_probe                                                         *)
(***************************************************************************)
Colon == ":"

KprobeNames == {<<"k", "p", "r", "o", "b", "e">>, <<"k">>}
KretprobeNames == {<<"k", "r", "e", "t", "p", "r", "o", "b", "e">>, <<"k", "r">>}
RawTracepointNames ==
    {<<"r", "a", "w", "_", "t", "r", "a", "c", "e", "p", "o", "i", "n", "t">>,
     <<"t", "p">>}
KnownTypeNames == KprobeNames \cup KretprobeNames \cup RawTracepointNames

CliOk(type, target) == [st |-> "ok", type |-> type, target |-> target]
CliErr(x) == [st |-> "err", type |-> "Invalid TYPE", target |-> x]
CliNone == [st |-> "none", type |-> "", target |-> <<>>]

\* A variant of the fallback arm that accepts any number of ':'.
FallbackAlways(input) == TRUE

\* The guard of the fallback arm: a single ':' in the whole input.
FallbackApplies(input) == CountChar(input, Colon) = 1

\* A variant whose fallback arm returns the text after the ':' as the target.
parse_cli_probe_target(input) ==
    LET sp == SplitOnce(input, Colon) IN
    IF sp.found THEN
        IF sp.before \in KprobeNames THEN CliOk("Kprobe", sp.after)
        ELSE IF sp.before \in KretprobeNames THEN CliOk("Kretprobe", sp.after)
        ELSE IF sp.before \in RawTracepointNames THEN CliOk("RawTracepoint", sp.after)
        ELSE IF FallbackApplies(input) THEN CliOk("RawTracepoint", sp.after)
        ELSE CliErr(sp.before)
    ELSE CliOk("Kprobe", input)

parse_cli_probe(input) ==
    LET sp == SplitOnce(input, Colon) IN
    IF sp.found THEN
        IF sp.before \in KprobeNames THEN CliOk("Kprobe", sp.after)
        ELSE IF sp.before \in KretprobeNames THEN CliOk("Kretprobe", sp.after)
        ELSE IF sp.before \in RawTracepointNames THEN CliOk("RawTracepoint", sp.after)
        ELSE IF FallbackApplies(input) THEN CliOk("RawTracepoint", input)
        ELSE CliErr(sp.before)
    ELSE CliOk("Kprobe", input)

CliChars == {"k", "r", "t", "p", "c", Colon}
TargetChars == {"c", Colon}

\* The inputs named by the specification's examples.
ExampleInputs ==
    {<<"x", "y", "z", ":", "f", "o", "o">>,
     <<"c", "o", "n", "s", "u", "m", "e", "_", "s", "k", "b">>,
     <<"k", "r", ":", "k", "f", "r", "e", "e", "_", "s", "k", "b">>,
     <<"t", "p", ":", "s", "k", "b", ":", "k", "f", "r", "e", "e", "_", "s", "k", "b">>,
     <<"s", "k", "b", ":", "k", "f", "r", "e", "e", "_", "s", "k", "b">>,
     <<"x", "y", "z", ":", "f", "o", "o", ":", "b", "a", "r">>}

CliInputs ==
    Strings(CliChars, MaxInputLen)
    \cup {name \o <<Colon>> \o t :
            name \in KnownTypeNames, t \in Strings(TargetChars, MaxTargetLen)}
    \cup ExampleInputs

CliInit ==
    /\ cliInput = <<>>
    /\ cliResult = CliNone

\* One call of parse_cli_probe.
ParseCliProbe ==
    /\ cliResult = CliNone
    /\ \E input \in CliInputs :
        /\ cliInput' = input
        /\ cliResult' = parse_cli_probe(input)
    /\ UNCHANGED <<timeVars, fmtVars, pcapVars, sinkVars, usdtVars, inspectVars, textVars>>

\* The caller is done with the result.
CliReturn ==
    /\ cliResult # CliNone
    /\ cliInput' = <<>>
    /\ cliResult' = CliNone
    /\ UNCHANGED <<timeVars, fmtVars, pcapVars, sinkVars, usdtVars, inspectVars, textVars>>

(***************************************************************************)
(* TimeSpec                                                                *)
(***************************************************************************)
NSECS_IN_SEC == 1000000000

TimeSpec(sec, nsec) == [sec |-> sec, nsec |-> nsec]

\* A variant of new that carries a single second whatever the overflow.
TimeSpecNewOneCarry(sec, nsec) ==
    IF nsec >= NSECS_IN_SEC
    THEN TimeSpec(sec + 1, nsec - NSECS_IN_SEC)
    ELSE TimeSpec(sec, nsec)

\* TimeSpec::new. Rust's / on i64 truncates toward zero; under the guard
\* nsec >= NSECS_IN_SEC the operands are positive and \div is the same.
TimeSpecNew(sec, nsec) ==
    IF nsec >= NSECS_IN_SEC
    THEN LET diff == nsec \div NSECS_IN_SEC
         IN TimeSpec(sec + diff, nsec - diff * NSECS_IN_SEC)
    ELSE TimeSpec(sec, nsec)

\* A variant of add that carries when the sum exceeds, not reaches, one second.
TimeSpecAddLateCarry(a, b) ==
    LET sec == a.sec + b.sec
        nsec == a.nsec + b.nsec
    IN IF nsec > NSECS_IN_SEC
       THEN TimeSpec(sec + 1, nsec - NSECS_IN_SEC)
       ELSE TimeSpec(sec, nsec)

\* impl ops::Add for TimeSpec
TimeSpecAdd(a, b) ==
    LET sec == a.sec + b.sec
        nsec == a.nsec + b.nsec
    IN IF nsec >= NSECS_IN_SEC
       THEN TimeSpec(sec + 1, nsec - NSECS_IN_SEC)
       ELSE TimeSpec(sec, nsec)

\* A variant of sub that borrows the nanoseconds but not the second.
TimeSpecSubNoBorrow(a, b) ==
    LET sec == a.sec - b.sec
        nsec == a.nsec - b.nsec
    IN IF nsec < 0
       THEN TimeSpec(sec, nsec + NSECS_IN_SEC)
       ELSE TimeSpec(sec, nsec)

\* impl ops::Sub for TimeSpec
TimeSpecSub(a, b) ==
    LET sec == a.sec - b.sec
        nsec == a.nsec - b.nsec
    IN IF nsec < 0
       THEN TimeSpec(sec - 1, nsec + NSECS_IN_SEC)
       ELSE TimeSpec(sec, nsec)

\* The seconds and nanoseconds handed to TimeSpec::new: the values around
\* every carry boundary, a negative nanosecond count included.
SecInputs == (-MaxSec)..MaxSec \cup {5}
NsecInputs ==
    {-1, 0, 1,
     NSECS_IN_SEC - 1, NSECS_IN_SEC, NSECS_IN_SEC + 1,
     2 * NSECS_IN_SEC - 1, 2 * NSECS_IN_SEC, 2 * NSECS_IN_SEC + 1}

TsNoOp == [op |-> "none", sec |-> 0, nsec |-> 0]
TsOpOf(op) == [op |-> op, sec |-> 0, nsec |-> 0]

\* #[derive(Default)]: both fields zero.
TimeInit ==
    /\ tsA = TimeSpec(0, 0)
    /\ tsB = TimeSpec(0, 0)
    /\ tsR = TimeSpec(0, 0)
    /\ tsOp = TsNoOp
    /\ tsDepth = 0

\* a = TimeSpec::new(sec, nsec)
TsNewA ==
    /\ tsOp.op = "none"
    /\ \E sec \in SecInputs, nsec \in NsecInputs :
        /\ tsA' = TimeSpecNew(sec, nsec)
        /\ tsR' = tsA'
        /\ tsOp' = [op |-> "newA", sec |-> sec, nsec |-> nsec]
    /\ UNCHANGED <<tsB, tsDepth, cliVars, fmtVars, pcapVars, sinkVars, usdtVars, inspectVars, textVars>>

\* b = TimeSpec::new(sec, nsec)
TsNewB ==
    /\ tsOp.op = "newA"
    /\ \E sec \in SecInputs, nsec \in NsecInputs :
        /\ tsB' = TimeSpecNew(sec, nsec)
        /\ tsR' = tsB'
        /\ tsOp' = [op |-> "newB", sec |-> sec, nsec |-> nsec]
    /\ UNCHANGED <<tsA, tsDepth, cliVars, fmtVars, pcapVars, sinkVars, usdtVars, inspectVars, textVars>>

\* r = a + b
TsAdd ==
    /\ tsOp.op \in {"newB", "feed"}
    /\ tsR' = TimeSpecAdd(tsA, tsB)
    /\ tsOp' = TsOpOf("add")
    /\ UNCHANGED <<tsA, tsB, tsDepth, cliVars, fmtVars, pcapVars, sinkVars, usdtVars, inspectVars, textVars>>

\* r = a - b
TsSub ==
    /\ tsOp.op \in {"newB", "feed"}
    /\ tsR' = TimeSpecSub(tsA, tsB)
    /\ tsOp' = TsOpOf("sub")
    /\ UNCHANGED <<tsA, tsB, tsDepth, cliVars, fmtVars, pcapVars, sinkVars, usdtVars, inspectVars, textVars>>

\* r = (a + b) - b
TsAddSub ==
    /\ tsOp.op \in {"newB", "feed"}
    /\ tsR' = TimeSpecSub(TimeSpecAdd(tsA, tsB), tsB)
    /\ tsOp' = TsOpOf("addsub")
    /\ UNCHANGED <<tsA, tsB, tsDepth, cliVars, fmtVars, pcapVars, sinkVars, usdtVars, inspectVars, textVars>>

\* The result of an add or a sub becomes the left operand of the next one.
TsFeed ==
    /\ tsOp.op \in {"add", "sub"}
    /\ tsDepth < MaxChain
    /\ tsA' = tsR
    /\ tsOp' = TsOpOf("feed")
    /\ tsDepth' = tsDepth + 1
    /\ UNCHANGED <<tsB, tsR, cliVars, fmtVars, pcapVars, sinkVars, usdtVars, inspectVars, textVars>>

(***************************************************************************)
(* Formatter and FormatterConf                                             *)
(***************************************************************************)
NL == "\n"
SP == " "

\* " ".repeat(n)
Repeat(c, n) == [i \in 1..n |-> c]

\* str::split: the pieces of s between the delimiters, the empty ones
\* included ("a\n" splits into "a" and "").
RECURSIVE Split(_, _)
Split(s, c) ==
    LET i == FirstIndexFrom(s, c, 1) IN
    IF i = 0 THEN <<s>>
    ELSE <<SubSeq(s, 1, i - 1)>> \o Split(SubSeq(s, i + 1, Len(s)), c)

EndsWith(s, c) == s # <<>> /\ s[Len(s)] = c

\* The lines after the first one: '\n', the prefix, the line.
RECURSIVE WriteLines(_, _)
WriteLines(lines, prefix) ==
    IF lines = <<>> THEN <<>>
    ELSE <<NL>> \o prefix \o Head(lines) \o WriteLines(Tail(lines), prefix)

\* A variant of flush_buf without the newline written after the loop.
FlushBufNoFinalNewline(inner, buf, level, start) ==
    LET lines == Split(buf, NL)
        prefix == Repeat(SP, level)
    IN [inner |-> inner \o (IF start THEN prefix ELSE <<>>) \o Head(lines)
                        \o WriteLines(Tail(lines), prefix),
        start |-> EndsWith(buf, NL)]

\* Formatter::flush_buf: what is appended to inner, and the new start flag.
\* split always yields a first piece, so the first branch is always taken.
FlushBuf(inner, buf, level, start) ==
    LET lines == Split(buf, NL)
        prefix == Repeat(SP, level)
        first == (IF start THEN prefix ELSE <<>>) \o Head(lines)
        rest == WriteLines(Tail(lines), prefix)
    IN IF EndsWith(buf, NL)
       THEN [inner |-> inner \o first \o rest \o <<NL>>, start |-> TRUE]
       ELSE [inner |-> inner \o first \o rest, start |-> FALSE]

FormatterConf(level, saved) == [level |-> level, saved_levels |-> saved]

\* FormatterConf::inc_level
IncLevel(conf, diff) ==
    FormatterConf(conf.level + diff, Append(conf.saved_levels, conf.level))

\* A variant of reset_level that takes the oldest saved level.
ResetLevelOldest(conf) ==
    IF conf.saved_levels # <<>>
    THEN FormatterConf(Head(conf.saved_levels), Tail(conf.saved_levels))
    ELSE conf

\* FormatterConf::reset_level: pops the saved level, or only warns.
ResetLevel(conf) ==
    LET n == Len(conf.saved_levels) IN
    IF n > 0
    THEN FormatterConf(conf.saved_levels[n], SubSeq(conf.saved_levels, 1, n - 1))
    ELSE conf

FmtInit ==
    /\ fPc = "none"
    /\ fInner = <<>>
    /\ fConf = FormatterConf(0, <<>>)
    /\ fLevel = 0
    /\ fStart = TRUE
    /\ fBuf = <<>>
    /\ fInput = <<>>

\* Formatter::new(inner, FormatterConf::with_level(l))
FmtNew ==
    /\ fPc = "none"
    /\ \E l \in 0..MaxLevel :
        /\ fConf' = FormatterConf(l, <<>>)
        /\ fLevel' = l
    /\ fPc' = "live"
    /\ fStart' = TRUE
    /\ fBuf' = <<>>
    /\ fInner' = <<>>
    /\ fInput' = <<>>
    /\ UNCHANGED <<cliVars, timeVars, pcapVars, sinkVars, usdtVars, inspectVars, textVars>>

FmtTexts == Strings({"a", NL}, MaxWriteLen) \ {<<>>}

\* fmt::Write::write_str
FmtWriteStr ==
    /\ fPc = "live"
    /\ \E s \in FmtTexts :
        /\ Len(fInput) + Len(s) <= MaxText
        /\ IF fConf.level # fLevel
           THEN /\ IF fBuf # <<>>
                   THEN LET r == FlushBuf(fInner, fBuf, fLevel, fStart)
                        IN /\ fInner' = r.inner
                           /\ fStart' = r.start
                           /\ fBuf' = s
                   ELSE /\ fBuf' = fBuf \o s
                        /\ UNCHANGED <<fInner, fStart>>
                /\ fLevel' = fConf.level
           ELSE /\ fBuf' = fBuf \o s
                /\ UNCHANGED <<fInner, fStart, fLevel>>
        /\ fInput' = fInput \o [i \in 1..Len(s) |-> [c |-> s[i], level |-> fConf.level]]
    /\ UNCHANGED <<fPc, fConf, cliVars, timeVars, pcapVars, sinkVars, usdtVars, inspectVars, textVars>>

\* FormatterConf::inc_level on the conf of a Formatter
FmtIncLevel ==
    /\ fPc = "live"
    /\ Len(fConf.saved_levels) < MaxSaved
    /\ \E diff \in 1..MaxDiff : fConf' = IncLevel(fConf, diff)
    /\ UNCHANGED <<fPc, fInner, fLevel, fStart, fBuf, fInput, cliVars, timeVars, pcapVars, sinkVars, usdtVars, inspectVars, textVars>>

\* FormatterConf::reset_level on the conf of a Formatter
FmtResetLevel ==
    /\ fPc = "live"
    /\ fConf' = ResetLevel(fConf)
    /\ UNCHANGED <<fPc, fInner, fLevel, fStart, fBuf, fInput, cliVars, timeVars, pcapVars, sinkVars, usdtVars, inspectVars, textVars>>

\* impl Drop for Formatter
FmtDrop ==
    /\ fPc = "live"
    /\ IF fBuf # <<>>
       THEN LET r == FlushBuf(fInner, fBuf, fLevel, fStart)
            IN /\ fInner' = r.inner
               /\ fStart' = r.start
               /\ fBuf' = <<>>
       ELSE UNCHANGED <<fInner, fStart, fBuf>>
    /\ fPc' = "dropped"
    /\ UNCHANGED <<fConf, fLevel, fInput, cliVars, timeVars, pcapVars, sinkVars, usdtVars, inspectVars, textVars>>

(***************************************************************************)
(* A FormatterConf on its own: inc_level and reset_level in any order.     *)
(***************************************************************************)
ConfCall(op, diff, pre) == [op |-> op, diff |-> diff, pre |-> pre]

\* FormatterConf::new()
ConfInit ==
    /\ cConf = FormatterConf(0, <<>>)
    /\ cLast = ConfCall("new", 0, FormatterConf(0, <<>>))
    /\ cPrev = ConfCall("none", 0, FormatterConf(0, <<>>))
    /\ cMatch = <<>>

\* A call of inc_level.
ConfIncLevel ==
    /\ Len(cMatch) < MaxConfDepth
    /\ \E diff \in 0..MaxConfDiff :
        /\ cConf' = IncLevel(cConf, diff)
        /\ cLast' = ConfCall("inc_level", diff, cConf)
    /\ cPrev' = cLast
    /\ cMatch' = Append(cMatch, cConf.level)
    /\ UNCHANGED <<ipVars, skbVars>>
    /\ UNCHANGED <<cliVars, timeVars, fmtVars, pcapVars, sinkVars, usdtVars, inspectVars>>

\* A call of reset_level.
ConfResetLevel ==
    /\ cConf' = ResetLevel(cConf)
    /\ cLast' = ConfCall("reset_level", 0, cConf)
    /\ cPrev' = cLast
    /\ cMatch' = IF cMatch = <<>> THEN cMatch ELSE SubSeq(cMatch, 1, Len(cMatch) - 1)
    /\ UNCHANGED <<ipVars, skbVars>>
    /\ UNCHANGED <<cliVars, timeVars, fmtVars, pcapVars, sinkVars, usdtVars, inspectVars>>

(***************************************************************************)
(* helpers/net.rs: parse_ipv4_addr.  A u32 is kept as its two 16-bit       *)
(* halves, raw = hi * 2^16 + lo.                                           *)
(***************************************************************************)
Halves ==
    LET Octets == {0, 1, 2, 3, 4, 10, 99, 100, 101, 255} IN
    {a * 256 + b : a \in Octets, b \in Octets}
U32(hi, lo) == [hi |-> hi, lo |-> lo]
NoAddr == [st |-> "none", addr |-> <<>>]
AddrOk(addr) == [st |-> "ok", addr |-> addr]
AddrErr == [st |-> "err", addr |-> <<>>]

DigitChars == <<"0", "1", "2", "3", "4", "5", "6", "7", "8", "9",
                "a", "b", "c", "d", "e", "f">>

\* char::from_digit(num, radix): the digit, or <<>> for None (num >= radix).
FromDigit(num, radix) ==
    IF num < radix THEN <<DigitChars[num + 1]>> ELSE <<>>

\* One turn of the loop of u8_to_utf8, st = [addr, input, push, ok], with a
\* push flag that does not stick.
U8StepPushOnce(st, ord) ==
    LET current == st.input \div ord
        d == FromDigit(current, 10) IN
    IF ~st.ok THEN st
    ELSE IF current # 0 \/ ord = 1
         THEN IF d = <<>>
              THEN [st EXCEPT !.ok = FALSE]
              ELSE [addr |-> st.addr \o d, input |-> st.input % ord,
                    push |-> TRUE, ok |-> TRUE]
         ELSE [st EXCEPT !.input = st.input % ord]

\* One turn of the loop of u8_to_utf8 for ord, st = [addr, input, push, ok].
U8Step(st, ord) ==
    LET current == st.input \div ord
        d == FromDigit(current, 10) IN
    IF ~st.ok THEN st
    ELSE IF st.push \/ current # 0 \/ ord = 1
         THEN IF d = <<>>
              THEN [st EXCEPT !.ok = FALSE]
              ELSE [addr |-> st.addr \o d, input |-> st.input % ord,
                    push |-> TRUE, ok |-> TRUE]
         ELSE [st EXCEPT !.input = st.input % ord]

\* The closure u8_to_utf8: appends input to addr, or fails.
U8ToUtf8(addr, input) ==
    LET s0 == [addr |-> addr, input |-> input, push |-> FALSE, ok |-> TRUE]
        s3 == U8Step(U8Step(U8Step(s0, 100), 10), 1) IN
    IF s3.ok THEN AddrOk(s3.addr) ELSE AddrErr

\* parse_ipv4_addr(raw)
ParseIpv4Addr(raw) ==
    LET a == U8ToUtf8(<<>>, raw.hi \div 256)
        b == U8ToUtf8(a.addr \o <<".">>, raw.hi % 256)
        c == U8ToUtf8(b.addr \o <<".">>, raw.lo \div 256)
        d == U8ToUtf8(c.addr \o <<".">>, raw.lo % 256) IN
    IF a.st = "err" THEN AddrErr
    ELSE IF b.st = "err" THEN AddrErr
    ELSE IF c.st = "err" THEN AddrErr
    ELSE d

Ipv4Init ==
    /\ ipRaw = U32(0, 0)
    /\ ipRes = NoAddr

\* The call of parse_ipv4_addr on some raw address.
Ipv4Parse ==
    /\ ipRes = NoAddr
    /\ \E hi \in Halves, lo \in Halves :
        /\ ipRaw' = U32(hi, lo)
        /\ ipRes' = ParseIpv4Addr(U32(hi, lo))
    /\ UNCHANGED <<confVars, skbVars>>
    /\ UNCHANGED <<cliVars, timeVars, fmtVars, pcapVars, sinkVars, usdtVars, inspectVars>>

(***************************************************************************)
(* DelimWriter and the text rendering of an SkbEvent (SkbEvent::event_fmt),*)
(* one step per section of the event.                                      *)
(***************************************************************************)
\* An absent Option<..> sub-record.
None == [some |-> FALSE]

\* "{}" of an unsigned integer
RECURSIVE Dec(_)
Dec(n) ==
    IF n < 10 THEN <<DigitChars[n + 1]>>
    ELSE Dec(n \div 10) \o <<DigitChars[(n % 10) + 1]>>

RECURSIVE HexDigits(_)
HexDigits(n) ==
    IF n < 16 THEN <<DigitChars[n + 1]>>
    ELSE HexDigits(n \div 16) \o <<DigitChars[(n % 16) + 1]>>

\* "{:#x}" of an unsigned integer
Hex(n) == <<"0", "x">> \o HexDigits(n)

\* DelimWriter::new(delim)
DelimWriterNew(delim) == [delim |-> delim, first |-> TRUE]

\* A variant of DelimWriter::write that writes the delimiter the first time too.
DelimWriteAlways(w) ==
    [w |-> [w EXCEPT !.first = FALSE], out |-> <<w.delim>>]

\* DelimWriter::write: the writer afterwards and what went to the formatter.
DelimWrite(w) ==
    IF w.first
    THEN [w |-> [w EXCEPT !.first = FALSE], out |-> <<>>]
    ELSE [w |-> w, out |-> <<w.delim>>]

\* DelimWriter::used(): whether write was called.
DelimUsed(w) == ~w.first

\* DelimWriter::reset(): the next write is a first write again.
DelimReset(w) == [w EXCEPT !.first = TRUE]

\* "ns {}"
NsText(ns) == <<"n", "s", " ">> \o Dec(ns.netns)

\* The dev sub-record after space.write.
DevText(dev) ==
    (IF dev.ifindex > 0
     THEN <<"i", "f", " ">> \o Dec(dev.ifindex)
          \o (IF dev.name # <<>> THEN <<" ", "(">> \o dev.name \o <<")">> ELSE <<>>)
     ELSE <<>>)
    \o (IF dev.rx_ifindex.some THEN <<" ", "r", "x", "i", "f", " ">> \o Dec(dev.rx_ifindex.v) ELSE <<>>)

\* "vlan (id {} prio {}{}{})"
VlanText(vlan) ==
    <<"v", "l", "a", "n", " ", "(", "i", "d", " ">> \o Dec(vlan.vid) \o <<" ", "p", "r", "i", "o", " ">> \o Dec(vlan.pcp)
    \o (IF vlan.dei THEN <<" ", "d", "r", "o", "p">> ELSE <<>>)
    \o (IF vlan.acceleration THEN <<" ", "a", "c", "c", "e", "l">> ELSE <<>>)
    \o <<")">>

\* ip_summed = 3: start = csum & 0xffff, off = csum >> 16.
CsumPartialText(csum) ==
    LET start == csum % 65536
        off == csum \div 65536 IN
    <<"p", "a", "r", "t", "i", "a", "l", " ", "(", "s", "t", "a", "r", "t", " ">> \o Dec(start) \o <<" ", "o", "f", "f", " ">> \o Dec(off) \o <<")", " ">>

\* The match on meta.ip_summed.
CsumText(meta) ==
    CASE meta.ip_summed = 0 -> <<"n", "o", "n", "e", " ">>
      [] meta.ip_summed = 1 -> <<"u", "n", "n", "e", "c", "e", "s", "s", "a", "r", "y", " ", "(", "l", "e", "v", "e", "l", " ">> \o Dec(meta.csum_level) \o <<")", " ">>
      [] meta.ip_summed = 2 -> <<"c", "o", "m", "p", "l", "e", "t", "e", " ", "(">> \o Hex(meta.csum) \o <<")", " ">>
      [] meta.ip_summed = 3 -> CsumPartialText(meta.csum)
      [] OTHER -> <<"u", "n", "k", "n", "o", "w", "n", " ", "(">> \o Dec(meta.ip_summed) \o <<")", " ">>

\* The meta part of "skb [...]".
MetaText(meta) ==
    <<"c", "s", "u", "m", " ">> \o CsumText(meta)
    \o (IF meta.hash # 0 THEN <<"h", "a", "s", "h", " ">> \o Hex(meta.hash) \o <<" ">> ELSE <<>>)
    \o <<"l", "e", "n", " ">> \o Dec(meta.len) \o <<" ">>
    \o (IF meta.data_len # 0 THEN <<"d", "a", "t", "a", "_", "l", "e", "n", " ">> \o Dec(meta.data_len) \o <<" ">> ELSE <<>>)
    \o <<"p", "r", "i", "o", "r", "i", "t", "y", " ">> \o Dec(meta.priority)

\* The data_ref part of "skb [...]".
DataRefText(dataref) ==
    (IF dataref.nohdr THEN <<"n", "o", "h", "d", "r", " ">> ELSE <<>>)
    \o (IF dataref.cloned THEN <<"c", "l", "o", "n", "e", "d", " ">> ELSE <<>>)
    \o (IF dataref.fclone > 0 THEN <<"f", "c", "l", "o", "n", "e", " ">> \o Dec(dataref.fclone) \o <<" ">> ELSE <<>>)
    \o <<"u", "s", "e", "r", "s", " ">> \o Dec(dataref.users) \o <<" ", "d", "a", "t", "a", "r", "e", "f", " ">> \o Dec(dataref.dataref)

\* "skb [" .. "]"
SkbText(meta, data_ref) ==
    <<"s", "k", "b", " ", "[">>
    \o (IF meta.some THEN MetaText(meta) ELSE <<>>)
    \o (IF meta.some /\ data_ref.some THEN <<" ">> ELSE <<>>)
    \o (IF data_ref.some THEN DataRefText(data_ref) ELSE <<>>)
    \o <<"]">>

\* "gso [type {:#x} " .. "size {}]"
GsoText(gso) ==
    <<"g", "s", "o", " ", "[", "t", "y", "p", "e", " ">> \o Hex(gso.type) \o <<" ">>
    \o (IF gso.flags # 0 THEN <<"f", "l", "a", "g", "s", " ">> \o Hex(gso.flags) \o <<" ">> ELSE <<>>)
    \o (IF gso.frags # 0 THEN <<"f", "r", "a", "g", "s", " ">> \o Dec(gso.frags) \o <<" ">> ELSE <<>>)
    \o (IF gso.segs # 0 THEN <<"s", "e", "g", "s", " ">> \o Dec(gso.segs) \o <<" ">> ELSE <<>>)
    \o <<"s", "i", "z", "e", " ">> \o Dec(gso.size) \o <<"]">>

UnknownPacketText == <<"u", "n", "k", "n", "o", "w", "n", " ", "p", "a", "c", "k", "e", "t">>

\* What the tcpdump child printed for a packet.
PacketLine == <<"I", "P">>

\* What the packet arm writes: tcpdump(format) fails, display_event returns
\* Ok, fails with BrokenPipe or fails otherwise, before or after having
\* written a first chunk.
PacketText(outcome) ==
    CASE outcome = "ok" -> PacketLine
      [] outcome = "init_err" -> UnknownPacketText
      [] outcome = "broken_pipe" -> <<>>
      [] outcome = "err" -> UnknownPacketText
      [] outcome = "chunk_then_err" -> PacketLine \o UnknownPacketText

Some(r) == [some |-> TRUE] @@ r

\* The sub-records the events are built from.
NsValues == {None, Some([netns |-> 42])}
DevValues ==
    {None,
     Some([ifindex |-> 0, name |-> <<>>, rx_ifindex |-> None]),
     Some([ifindex |-> 0, name |-> <<>>, rx_ifindex |-> Some([v |-> 2])]),
     Some([ifindex |-> 3, name |-> <<"e", "t", "h", "0">>, rx_ifindex |-> None]),
     Some([ifindex |-> 3, name |-> <<>>, rx_ifindex |-> Some([v |-> 2])])}
VlanValues ==
    {None, Some([vid |-> 5, pcp |-> 1, dei |-> TRUE, acceleration |-> FALSE])}
SkbMetaEvent(ip_summed, csum, hash, data_len) ==
    Some([len |-> 54, data_len |-> data_len, hash |-> hash, ip_summed |-> ip_summed,
          csum |-> csum, csum_level |-> 1, priority |-> 0])
MetaValues ==
    {None,
     SkbMetaEvent(0, 0, 0, 0),
     SkbMetaEvent(1, 0, 171, 7),
     SkbMetaEvent(2, 4660, 0, 0),
     SkbMetaEvent(3, 4660, 0, 0),
     SkbMetaEvent(3, 16 * 65536 + 32, 0, 0),
     SkbMetaEvent(4, 0, 0, 0)}
DataRefValues ==
    {None,
     Some([nohdr |-> FALSE, cloned |-> FALSE, fclone |-> 0, users |-> 1, dataref |-> 1]),
     Some([nohdr |-> TRUE, cloned |-> TRUE, fclone |-> 2, users |-> 1, dataref |-> 2])}
GsoValues ==
    {None,
     Some([type |-> 1, flags |-> 0, frags |-> 0, segs |-> 0, size |-> 1448]),
     Some([type |-> 3, flags |-> 16, frags |-> 2, segs |-> 4, size |-> 1448])}
PacketValues == {None, Some([len |-> 54])}

SkbEvent(ns, dev, vlan, meta, data_ref, gso, packet) ==
    [ns |-> ns, dev |-> dev, vlan |-> vlan, meta |-> meta, data_ref |-> data_ref,
     gso |-> gso, packet |-> packet]

\* What event_fmt reads of the DisplayFormat.
SkbFormats == [multiline : BOOLEAN, print_ll : BOOLEAN]

SkbInit ==
    /\ skPc = "idle"
    /\ skEvent = SkbEvent(None, None, None, None, None, None, None)
    /\ skFormat = [multiline |-> FALSE, print_ll |-> FALSE]
    /\ skSpace = DelimWriterNew(" ")
    /\ skOut = <<>>
    /\ skWrites = 0
    /\ skEmitted = <<>>

\* event_fmt is called on some event: let mut space = DelimWriter::new(' ').
SkbStart ==
    /\ skPc = "idle"
    /\ \E ns \in NsValues, dev \in DevValues, vlan \in VlanValues, meta \in MetaValues,
          data_ref \in DataRefValues, gso \in GsoValues, packet \in PacketValues :
        skEvent' = SkbEvent(ns, dev, vlan, meta, data_ref, gso, packet)
    /\ \E format \in SkbFormats : skFormat' = format
    /\ skSpace' = DelimWriterNew(" ")
    /\ skOut' = <<>>
    /\ skWrites' = 0
    /\ skEmitted' = <<>>
    /\ skPc' = "ns"
    /\ UNCHANGED <<confVars, ipVars>>
    /\ UNCHANGED <<cliVars, timeVars, fmtVars, pcapVars, sinkVars, usdtVars, inspectVars>>

\* space.write(f)?; write!(f, text)?; for the section sec.
SkbSection(sec, text) ==
    LET r == DelimWrite(skSpace) IN
    /\ skSpace' = r.w
    /\ skOut' = skOut \o r.out \o text
    /\ skWrites' = skWrites + 1
    /\ skEmitted' = Append(skEmitted, [sec |-> sec, nth |-> skWrites,
                                       delim |-> r.out, text |-> text])

\* A section that is absent writes nothing.
SkbSkip == UNCHANGED <<skSpace, skOut, skWrites, skEmitted>>

\* if let Some(ns) = &self.ns
SkbNs ==
    /\ skPc = "ns"
    /\ IF skEvent.ns.some THEN SkbSection("ns", NsText(skEvent.ns)) ELSE SkbSkip
    /\ skPc' = "dev"
    /\ UNCHANGED <<skEvent, skFormat, confVars, ipVars>>
    /\ UNCHANGED <<cliVars, timeVars, fmtVars, pcapVars, sinkVars, usdtVars, inspectVars>>

\* if let Some(dev) = &self.dev
SkbDev ==
    /\ skPc = "dev"
    /\ IF skEvent.dev.some THEN SkbSection("dev", DevText(skEvent.dev)) ELSE SkbSkip
    /\ skPc' = "vlan"
    /\ UNCHANGED <<skEvent, skFormat, confVars, ipVars>>
    /\ UNCHANGED <<cliVars, timeVars, fmtVars, pcapVars, sinkVars, usdtVars, inspectVars>>

\* if format.print_ll { if let Some(vlan) = &self.vlan
SkbVlan ==
    /\ skPc = "vlan"
    /\ IF skFormat.print_ll /\ skEvent.vlan.some
       THEN SkbSection("vlan", VlanText(skEvent.vlan))
       ELSE SkbSkip
    /\ skPc' = "skb"
    /\ UNCHANGED <<skEvent, skFormat, confVars, ipVars>>
    /\ UNCHANGED <<cliVars, timeVars, fmtVars, pcapVars, sinkVars, usdtVars, inspectVars>>

\* if self.meta.is_some() || self.data_ref.is_some()
SkbMeta ==
    /\ skPc = "skb"
    /\ IF skEvent.meta.some \/ skEvent.data_ref.some
       THEN SkbSection("skb", SkbText(skEvent.meta, skEvent.data_ref))
       ELSE SkbSkip
    /\ skPc' = "gso"
    /\ UNCHANGED <<skEvent, skFormat, confVars, ipVars>>
    /\ UNCHANGED <<cliVars, timeVars, fmtVars, pcapVars, sinkVars, usdtVars, inspectVars>>

\* if let Some(gso) = &self.gso
SkbGso ==
    /\ skPc = "gso"
    /\ IF skEvent.gso.some THEN SkbSection("gso", GsoText(skEvent.gso)) ELSE SkbSkip
    /\ skPc' = "break"
    /\ UNCHANGED <<skEvent, skFormat, confVars, ipVars>>
    /\ UNCHANGED <<cliVars, timeVars, fmtVars, pcapVars, sinkVars, usdtVars, inspectVars>>

\* if format.multiline && space.used() { writeln!(f)?; space.reset(); }
SkbBreak ==
    /\ skPc = "break"
    /\ IF skFormat.multiline /\ DelimUsed(skSpace)
       THEN /\ skOut' = skOut \o <<NL>>
            /\ skSpace' = DelimReset(skSpace)
            /\ skWrites' = 0
            /\ skEmitted' = Append(skEmitted, [sec |-> "break", nth |-> skWrites,
                                               delim |-> <<>>, text |-> <<NL>>])
       ELSE SkbSkip
    /\ skPc' = "packet"
    /\ UNCHANGED <<skEvent, skFormat, confVars, ipVars>>
    /\ UNCHANGED <<cliVars, timeVars, fmtVars, pcapVars, sinkVars, usdtVars, inspectVars>>

\* if let Some(packet) = &self.packet { .. } else { .. "unknown packet" }
SkbPacket ==
    /\ skPc = "packet"
    /\ IF skEvent.packet.some
       THEN \E outcome \in {"ok", "init_err", "broken_pipe", "err", "chunk_then_err"} : SkbSection("packet", PacketText(outcome))
       ELSE SkbSection("packet", UnknownPacketText)
    /\ skPc' = "done"
    /\ UNCHANGED <<skEvent, skFormat, confVars, ipVars>>
    /\ UNCHANGED <<cliVars, timeVars, fmtVars, pcapVars, sinkVars, usdtVars, inspectVars>>

(***************************************************************************)
(* The tcpdump dispatcher: TCPDUMP, Tcpdump::new, Tcpdump::display_event   *)
(* and the packet part of SkbEvent::event_fmt, run by several renderers.   *)
(*                                                                         *)
(* The child answers the record of packet p with a response of some        *)
(* length; its bytes are named (p, 1) .. (p, len), the last one being the  *)
(* newline. A run of bytes is a segment [pkt, lo, hi, badAt], where badAt  *)
(* is the position of a byte that is not valid UTF-8 (0: none).            *)
(***************************************************************************)
ReadBuf == 250

Renderers == 1..NRenderers

\* The lengths of the child's responses: around the size of the read buffer.
RespLens == {1, ReadBuf - 1, ReadBuf, ReadBuf + 1}
BadAts == {0, 1}

Min(a, b) == IF a < b THEN a ELSE b
SegLen(g) == g.hi - g.lo + 1

RECURSIVE Avail(_)
Avail(segs) == IF segs = <<>> THEN 0 ELSE SegLen(Head(segs)) + Avail(Tail(segs))

\* The first n bytes of segs.
RECURSIVE Take(_, _)
Take(segs, n) ==
    IF n = 0 \/ segs = <<>> THEN <<>>
    ELSE LET h == Head(segs) IN
         IF SegLen(h) <= n THEN <<h>> \o Take(Tail(segs), n - SegLen(h))
         ELSE <<[h EXCEPT !.hi = h.lo + n - 1]>>

\* segs without its first n bytes.
RECURSIVE Drop(_, _)
Drop(segs, n) ==
    IF n = 0 \/ segs = <<>> THEN segs
    ELSE LET h == Head(segs) IN
         IF SegLen(h) <= n THEN Drop(Tail(segs), n - SegLen(h))
         ELSE <<[h EXCEPT !.lo = h.lo + n]>> \o Tail(segs)

\* The concatenation, two runs of the same response being written as one.
Join(a, b) ==
    IF a = <<>> THEN b
    ELSE IF b = <<>> THEN a
    ELSE LET x == a[Len(a)]
             y == b[1]
         IN IF x.pkt = y.pkt /\ x.hi + 1 = y.lo
            THEN SubSeq(a, 1, Len(a) - 1) \o <<[x EXCEPT !.hi = y.hi]>> \o Tail(b)
            ELSE a \o b

\* &buf[..read - 1]: the bytes read without the last one.
DropLastByte(segs) ==
    LET n == Len(segs)
        g == segs[n]
    IN IF SegLen(g) = 1 THEN SubSeq(segs, 1, n - 1)
       ELSE SubSeq(segs, 1, n - 1) \o <<[g EXCEPT !.hi = g.hi - 1]>>

\* str::from_utf8 fails on bytes that hold an invalid one.
InvalidUtf8(segs) ==
    \E i \in 1..Len(segs) : segs[i].lo <= segs[i].badAt /\ segs[i].badAt <= segs[i].hi

\* What write!(f, "{}", text) adds to the formatter.
Text(segs) ==
    [i \in 1..Len(segs) |->
        [kind |-> "bytes", pkt |-> segs[i].pkt, lo |-> segs[i].lo, hi |-> segs[i].hi]]

\* write!(f, "unknown packet")
UnknownPacket == [kind |-> "unknown packet", pkt |-> 0, lo |-> 0, hi |-> 0]

Ret(err, res) == [err |-> err, res |-> res]

\* A variant of the error arm that does not single out BrokenPipe.
OnDisplayErrorAlwaysUnknown(err) == <<UnknownPacket>>

\* event_fmt on Err(e) of display_event: BrokenPipe is silenced, any other
\* error writes "unknown packet".
OnDisplayError(err) ==
    IF err = "BrokenPipe" THEN <<>> ELSE <<UnknownPacket>>

Mutex(holder, poisoned) == [holder |-> holder, poisoned |-> poisoned]

\* A variant of the lock that is granted while another renderer holds it.
MutexAlwaysFree == TRUE

\* Mutex::lock returns once no thread holds the mutex.
MutexFree == mutex.holder = 0

\* The pcap file header on the child's stdin; packet records are the
\* numbers of the events, from 1.
PcapHeader == 0

\* A variant of the one-shot cell that runs its initializer at every call.
CellNeverSet == TRUE

\* get_or_try_init runs the initializer only while the cell is empty.
CellEmpty == cell = "empty"

PcapInit ==
    /\ pc = [t \in Renderers |-> "idle"]
    /\ pkt = [t \in Renderers |-> 0]
    /\ out = [t \in Renderers |-> <<>>]
    /\ ret = [t \in Renderers |-> Ret("none", "none")]
    /\ nEvents = 0
    /\ cell = "empty"
    /\ child = 0
    /\ nSpawned = 0
    /\ initFailedAt = 0
    /\ mutex = Mutex(0, FALSE)
    /\ childAlive = FALSE
    /\ stdin = <<>>
    /\ todo = <<>>
    /\ pipe = <<>>

\* event_fmt of an event without a packet: "unknown packet".
RenderNoPacket(t) ==
    /\ pc[t] = "idle"
    /\ nEvents < MaxEvents
    /\ nEvents' = nEvents + 1
    /\ pkt' = [pkt EXCEPT ![t] = nEvents + 1]
    /\ out' = [out EXCEPT ![t] = <<UnknownPacket>>]
    /\ ret' = [ret EXCEPT ![t] = Ret("NoPacket", "Ok")]
    /\ UNCHANGED <<pc, cell, child, nSpawned, initFailedAt, mutex, childAlive, stdin, todo, pipe>>
    /\ UNCHANGED <<cliVars, timeVars, fmtVars, sinkVars, usdtVars, inspectVars, textVars>>

\* event_fmt of an event with a packet reaches tcpdump(format).
RenderPacket(t) ==
    /\ pc[t] = "idle"
    /\ nEvents < MaxEvents
    /\ nEvents' = nEvents + 1
    /\ pkt' = [pkt EXCEPT ![t] = nEvents + 1]
    /\ out' = [out EXCEPT ![t] = <<>>]
    /\ ret' = [ret EXCEPT ![t] = Ret("none", "none")]
    /\ pc' = [pc EXCEPT ![t] = "tcpdump"]
    /\ UNCHANGED <<cell, child, nSpawned, initFailedAt, mutex, childAlive, stdin, todo, pipe>>
    /\ UNCHANGED <<cliVars, timeVars, fmtVars, sinkVars, usdtVars, inspectVars, textVars>>

\* TCPDUMP.get_or_try_init with the cell set: the dispatcher is returned.
TcpdumpGet(t) ==
    /\ pc[t] = "tcpdump"
    /\ ~CellEmpty
    /\ pc' = [pc EXCEPT ![t] = "lock"]
    /\ UNCHANGED <<pkt, out, ret, nEvents, cell, child, nSpawned, initFailedAt, mutex, childAlive,
                   stdin, todo, pipe>>
    /\ UNCHANGED <<cliVars, timeVars, fmtVars, sinkVars, usdtVars, inspectVars, textVars>>

\* TCPDUMP.get_or_try_init with the cell empty, Tcpdump::new succeeding: the
\* child is spawned and the pcap file header written. Other callers wait for
\* the initializer, so the step is atomic.
TcpdumpNew(t) ==
    /\ pc[t] = "tcpdump"
    /\ CellEmpty
    /\ cell' = "set"
    /\ nSpawned' = nSpawned + 1
    /\ child' = nSpawned + 1
    /\ childAlive' = TRUE
    /\ stdin' = <<PcapHeader>>
    /\ todo' = <<>>
    /\ pipe' = <<>>
    /\ mutex' = Mutex(0, FALSE)
    /\ pc' = [pc EXCEPT ![t] = "lock"]
    /\ UNCHANGED <<pkt, out, ret, nEvents, initFailedAt>>
    /\ UNCHANGED <<cliVars, timeVars, fmtVars, sinkVars, usdtVars, inspectVars, textVars>>

\* The same with Tcpdump::new failing (spawn, or the write of the header to
\* a child that was spawned): the cell stays empty and event_fmt writes
\* "unknown packet".
TcpdumpNewFails(t) ==
    /\ pc[t] = "tcpdump"
    /\ CellEmpty
    /\ \E spawned \in {0, 1} : nSpawned' = nSpawned + spawned
    /\ child' = child
    /\ initFailedAt' = (IF initFailedAt = 0 THEN nEvents ELSE initFailedAt)
    /\ out' = [out EXCEPT ![t] = out[t] \o <<UnknownPacket>>]
    /\ ret' = [ret EXCEPT ![t] = Ret("Init", "Ok")]
    /\ pc' = [pc EXCEPT ![t] = "idle"]
    /\ UNCHANGED <<pkt, nEvents, cell, mutex, childAlive, stdin, todo, pipe>>
    /\ UNCHANGED <<cliVars, timeVars, fmtVars, sinkVars, usdtVars, inspectVars, textVars>>

\* self.command.lock().unwrap() on a mutex that is not poisoned.
Lock(t) ==
    /\ pc[t] = "lock"
    /\ ~mutex.poisoned
    /\ MutexFree
    /\ mutex' = Mutex(t, FALSE)
    /\ pc' = [pc EXCEPT ![t] = "write"]
    /\ UNCHANGED <<pkt, out, ret, nEvents, cell, child, nSpawned, initFailedAt, childAlive, stdin,
                   todo, pipe>>
    /\ UNCHANGED <<cliVars, timeVars, fmtVars, sinkVars, usdtVars, inspectVars, textVars>>

\* The same on a poisoned mutex: lock returns Err and unwrap panics.
LockPoisoned(t) ==
    /\ pc[t] = "lock"
    /\ mutex.poisoned
    /\ pc' = [pc EXCEPT ![t] = "panicked"]
    /\ UNCHANGED <<pkt, out, ret, nEvents, cell, child, nSpawned, initFailedAt, mutex, childAlive,
                   stdin, todo, pipe>>
    /\ UNCHANGED <<cliVars, timeVars, fmtVars, sinkVars, usdtVars, inspectVars, textVars>>

\* display_event returns Err(err): the guard is dropped, event_fmt handles
\* the error and returns Ok.
ReturnErr(t, err) ==
    /\ out' = [out EXCEPT ![t] = out[t] \o OnDisplayError(err)]
    /\ ret' = [ret EXCEPT ![t] = Ret(err, "Ok")]
    /\ mutex' = Mutex(0, mutex.poisoned)
    /\ pc' = [pc EXCEPT ![t] = "idle"]

\* The thread panics while it holds the guard: the mutex is poisoned.
Panic(t) ==
    /\ mutex' = Mutex(0, TRUE)
    /\ pc' = [pc EXCEPT ![t] = "panicked"]
    /\ UNCHANGED <<out, ret>>

\* cmd.stdin.write_all(&buf)? succeeding; the child produces its response.
WriteRecord(t) ==
    /\ pc[t] = "write"
    /\ childAlive
    /\ stdin' = Append(stdin, pkt[t])
    /\ \E len \in RespLens, badAt \in BadAts :
        todo' = Append(todo, [pkt |-> pkt[t], lo |-> 1, hi |-> len, badAt |-> badAt])
    /\ pc' = [pc EXCEPT ![t] = "read"]
    /\ UNCHANGED <<pkt, out, ret, nEvents, cell, child, nSpawned, initFailedAt, mutex, childAlive, pipe>>
    /\ UNCHANGED <<cliVars, timeVars, fmtVars, sinkVars, usdtVars, inspectVars, textVars>>

\* The write to a child that has exited: io::ErrorKind::BrokenPipe.
WriteBrokenPipe(t) ==
    /\ pc[t] = "write"
    /\ ~childAlive
    /\ ReturnErr(t, "BrokenPipe")
    /\ UNCHANGED <<pkt, nEvents, cell, child, nSpawned, initFailedAt, childAlive, stdin, todo, pipe>>
    /\ UNCHANGED <<cliVars, timeVars, fmtVars, sinkVars, usdtVars, inspectVars, textVars>>

\* The write failing with an io::Error of another kind.
WriteFails(t) ==
    /\ pc[t] = "write"
    /\ ReturnErr(t, "Io")
    /\ UNCHANGED <<pkt, nEvents, cell, child, nSpawned, initFailedAt, childAlive, stdin, todo, pipe>>
    /\ UNCHANGED <<cliVars, timeVars, fmtVars, sinkVars, usdtVars, inspectVars, textVars>>

\* One turn of the loop with bytes in the pipe: read returns what is there,
\* up to the size of the buffer.
Read(t) ==
    /\ pc[t] = "read"
    /\ pipe # <<>>
    /\ LET read == Min(Avail(pipe), ReadBuf)
           buf == Take(pipe, read)
           text == IF read < ReadBuf THEN DropLastByte(buf) ELSE buf
       IN /\ pipe' = Drop(pipe, read)
          /\ IF InvalidUtf8(text)
             THEN ReturnErr(t, "Utf8")
             ELSE /\ out' = [out EXCEPT ![t] = Join(out[t], Text(text))]
                  /\ IF read < ReadBuf
                     THEN /\ ret' = [ret EXCEPT ![t] = Ret("none", "Ok")]
                          /\ mutex' = Mutex(0, mutex.poisoned)
                          /\ pc' = [pc EXCEPT ![t] = "idle"]
                     ELSE UNCHANGED <<ret, mutex, pc>>
    /\ UNCHANGED <<pkt, nEvents, cell, child, nSpawned, initFailedAt, childAlive, stdin, todo>>
    /\ UNCHANGED <<cliVars, timeVars, fmtVars, sinkVars, usdtVars, inspectVars, textVars>>

\* read returns 0 at the end of file (the child has exited and the pipe is
\* drained): read - 1 underflows, or the slice is out of range; both panic.
ReadEof(t) ==
    /\ pc[t] = "read"
    /\ pipe = <<>>
    /\ ~childAlive
    /\ Panic(t)
    /\ UNCHANGED <<pkt, nEvents, cell, child, nSpawned, initFailedAt, childAlive, stdin, todo, pipe>>
    /\ UNCHANGED <<cliVars, timeVars, fmtVars, sinkVars, usdtVars, inspectVars, textVars>>

\* read returns Err: unwrap panics.
ReadFails(t) ==
    /\ pc[t] = "read"
    /\ Panic(t)
    /\ UNCHANGED <<pkt, nEvents, cell, child, nSpawned, initFailedAt, childAlive, stdin, todo, pipe>>
    /\ UNCHANGED <<cliVars, timeVars, fmtVars, sinkVars, usdtVars, inspectVars, textVars>>

\* The sizes of the child's next write: the rest of the response, or a first
\* part of it.
PieceLens(g) == {SegLen(g)} \cup {n \in {ReadBuf - 1} : n < SegLen(g)}

\* The child writes output to its stdout.
ChildWrite ==
    /\ childAlive
    /\ todo # <<>>
    /\ \E n \in PieceLens(Head(todo)) :
        /\ pipe' = Join(pipe, Take(todo, n))
        /\ todo' = Drop(todo, n)
    /\ UNCHANGED <<pc, pkt, out, ret, nEvents, cell, child, nSpawned, initFailedAt, mutex, childAlive,
                   stdin>>
    /\ UNCHANGED <<cliVars, timeVars, fmtVars, sinkVars, usdtVars, inspectVars, textVars>>

\* The child exits (it is killed, or fails): what it had not written is lost.
ChildExit ==
    /\ childAlive
    /\ childAlive' = FALSE
    /\ todo' = <<>>
    /\ UNCHANGED <<pc, pkt, out, ret, nEvents, cell, child, nSpawned, initFailedAt, mutex, stdin, pipe>>
    /\ UNCHANGED <<cliVars, timeVars, fmtVars, sinkVars, usdtVars, inspectVars, textVars>>

\* The steps a renderer takes when nothing fails.
RendererStep(t) ==
    \/ RenderNoPacket(t)
    \/ RenderPacket(t)
    \/ TcpdumpGet(t)
    \/ TcpdumpNew(t)
    \/ Lock(t)
    \/ LockPoisoned(t)
    \/ WriteRecord(t)
    \/ WriteBrokenPipe(t)
    \/ Read(t)
    \/ ReadEof(t)

\* The failures of the environment.
Failure(t) ==
    \/ TcpdumpNewFails(t)
    \/ WriteFails(t)
    \/ ReadFails(t)

(***************************************************************************)
(* The sinks: PrintSingle and PrintSeries.                                 *)
(*                                                                         *)
(* An event is the sequence of the lines of its text; an event without     *)
(* lines renders as the empty text.                                        *)
(***************************************************************************)
LineTexts == {<<"a">>, <<"b">>}

Events == UNION {[1..k -> LineTexts] : k \in 0..MaxLines}

Groups == UNION {[1..k -> Events] : k \in 0..MaxGroup}

\* lines.join(sep)
RECURSIVE JoinWith(_, _)
JoinWith(lines, sep) ==
    IF lines = <<>> THEN <<>>
    ELSE IF Len(lines) = 1 THEN lines[1]
    ELSE lines[1] \o sep \o JoinWith(Tail(lines), sep)

\* format!("{}", e.display(format)): the text of the event.
Display(e) == JoinWith(e, <<NL>>)

\* The JSON projection of an event: one object, on one line.
ToJson(e) == <<"{">> \o JoinWith(e, <<",">>) \o <<"}">>

\* The JSON projection of a series: the array of its events' projections.
SeriesToJson(g) ==
    <<"[">> \o JoinWith([i \in 1..Len(g) |-> ToJson(g[i])], <<",">>) \o <<"]">>

TextFormats == {"SingleLine", "MultiLine"}
Formats == TextFormats \cup {"Json"}

\* A variant of PrintSingle that ends every event, empty ones too.
PrintSingleEndsEmpty(format, e) ==
    IF format = "Json" THEN ToJson(e) \o <<NL>>
    ELSE Display(e) \o (IF format = "SingleLine" THEN <<NL>> ELSE <<NL, NL>>)

\* What PrintSingle::process_one writes for the event e.
PrintSingleWrite(format, e) ==
    IF format = "Json" THEN ToJson(e) \o <<NL>>
    ELSE LET event == Display(e) IN
         IF event # <<>>
         THEN event \o (IF format = "SingleLine" THEN <<NL>> ELSE <<NL, NL>>)
         ELSE <<>>

\* The indent PrintSeries::process_one gives to the events after the first.
SeriesIndent == 2

\* The loop of PrintSeries::indent: the lines prefixed by n_spaces spaces and
\* by delim, which is "+ " for the first line and "  " afterwards.
RECURSIVE IndentLines(_, _, _)
IndentLines(lines, n_spaces, delim) ==
    IF lines = <<>> THEN <<>>
    ELSE <<Repeat(SP, n_spaces) \o delim \o Head(lines)>>
         \o IndentLines(Tail(lines), n_spaces, <<SP, SP>>)

\* PrintSeries::indent
SeriesIndentText(n_spaces, lines) ==
    IF n_spaces = 0 \/ lines = <<>> THEN lines
    ELSE JoinWith(IndentLines(Split(lines, NL), n_spaces, <<"+", SP>>), <<NL>>)

\* The MdCommon section of an event, if it has one.
MdCommons == {None, Some([clock_monotonic_offset |-> 5]),
              Some([clock_monotonic_offset |-> 7])}

\* if let Some(common) = e.get_section(MdCommon)
\*     { format.set_monotonic_offset(common.clock_monotonic_offset) }
SetMonotonicOffset(offset, md) ==
    IF md.some THEN Some([v |-> md.clock_monotonic_offset]) ELSE offset

SinkInit ==
    /\ printer = "none"
    /\ prFormat = "none"
    /\ prEvents = <<>>
    /\ prWriter = <<>>
    /\ srPc = "idle"
    /\ srGroup = <<>>
    /\ srContent = <<>>
    /\ srIndent = 0
    /\ srWritten = <<>>
    /\ prOffset = None
    /\ prLast = [rendered |-> FALSE, md |-> None, used |-> None]

\* PrintSingle::new
PrintSingleNew ==
    /\ printer = "none"
    /\ printer' = "single"
    /\ \E format \in Formats : prFormat' = format
    /\ UNCHANGED <<prEvents, prWriter, srPc, srGroup, srContent, srIndent, srWritten, prOffset, prLast>>
    /\ UNCHANGED <<cliVars, timeVars, fmtVars, pcapVars, usdtVars, inspectVars, textVars>>

\* PrintSingle::process_one
PrintSingleProcessOne ==
    /\ printer = "single"
    /\ Len(prEvents) < MaxCalls
    /\ \E e \in Events, md \in MdCommons :
        /\ prEvents' = Append(prEvents, e)
        /\ prWriter' = prWriter \o PrintSingleWrite(prFormat, e)
        /\ IF prFormat \in TextFormats
           THEN /\ prOffset' = SetMonotonicOffset(prOffset, md)
                /\ prLast' = [rendered |-> TRUE, md |-> md,
                           used |-> SetMonotonicOffset(prOffset, md)]
           ELSE UNCHANGED <<prOffset, prLast>>
    /\ UNCHANGED <<printer, prFormat, srPc, srGroup, srContent, srIndent, srWritten>>
    /\ UNCHANGED <<cliVars, timeVars, fmtVars, pcapVars, usdtVars, inspectVars, textVars>>

\* PrintSeries::new
PrintSeriesNew ==
    /\ printer = "none"
    /\ printer' = "series"
    /\ \E format \in Formats : prFormat' = format
    /\ UNCHANGED <<prEvents, prWriter, srPc, srGroup, srContent, srIndent, srWritten, prOffset, prLast>>
    /\ UNCHANGED <<cliVars, timeVars, fmtVars, pcapVars, usdtVars, inspectVars, textVars>>

\* PrintSeries::process_one in a text format, up to the loop.
SeriesBegin ==
    /\ printer = "series"
    /\ prFormat \in TextFormats
    /\ srPc \in {"idle", "done"}
    /\ srPc' = "loop"
    /\ srGroup' = <<>>
    /\ srContent' = <<>>
    /\ srIndent' = 0
    /\ srWritten' = <<>>
    /\ UNCHANGED <<printer, prFormat, prEvents, prWriter, prOffset, prLast>>
    /\ UNCHANGED <<cliVars, timeVars, fmtVars, pcapVars, usdtVars, inspectVars, textVars>>

\* One turn of the loop, for the next event of the series.
SeriesEvent ==
    /\ srPc = "loop"
    /\ Len(srGroup) < MaxGroup
    /\ \E e \in Events, md \in MdCommons :
        LET content == srContent \o SeriesIndentText(srIndent, Display(e)) IN
        /\ srGroup' = Append(srGroup, e)
        /\ prOffset' = SetMonotonicOffset(prOffset, md)
        /\ prLast' = [rendered |-> TRUE, md |-> md,
                           used |-> SetMonotonicOffset(prOffset, md)]
        /\ IF content # <<>>
           THEN /\ srContent' = content \o <<NL>>
                /\ srIndent' = SeriesIndent
           ELSE /\ srContent' = content
                /\ srIndent' = srIndent
    /\ UNCHANGED <<printer, prFormat, prEvents, prWriter, srPc, srWritten>>
    /\ UNCHANGED <<cliVars, timeVars, fmtVars, pcapVars, usdtVars, inspectVars, textVars>>

\* After the last event: the blank line and the write.
SeriesEnd ==
    /\ srPc = "loop"
    /\ srPc' = "done"
    /\ srWritten' = (IF srContent # <<>> THEN srContent \o <<NL>> ELSE <<>>)
    /\ UNCHANGED <<printer, prFormat, prEvents, prWriter, srGroup, srContent, srIndent, prOffset, prLast>>
    /\ UNCHANGED <<cliVars, timeVars, fmtVars, pcapVars, usdtVars, inspectVars, textVars>>

\* PrintSeries::process_one in the JSON format.
SeriesJson ==
    /\ printer = "series"
    /\ prFormat = "Json"
    /\ srPc \in {"idle", "done"}
    /\ srPc' = "done"
    /\ \E g \in Groups :
        /\ srGroup' = g
        /\ srWritten' = SeriesToJson(g) \o <<NL>>
    /\ UNCHANGED <<printer, prFormat, prEvents, prWriter, srContent, srIndent, prOffset, prLast>>
    /\ UNCHANGED <<cliVars, timeVars, fmtVars, pcapVars, usdtVars, inspectVars, textVars>>

(***************************************************************************)
(* UsdtBuilder.                                                            *)
(*                                                                         *)
(* A probe is [type, name]; a link is the name of the probe it attaches.   *)
(***************************************************************************)
Probes == {[type |-> "Usdt", name |-> "u1"], [type |-> "Usdt", name |-> "u2"],
           [type |-> "Kprobe", name |-> "k1"]}

Hooks == {"h1", "h2"}

\* The values of the map_fds argument of init.
MapFds == {<<>>, <<"m1">>, <<"m2">>}

\* struct UsdtBuilder
UsdtBuilder(links, map_fds, hooks) ==
    [links |-> links, map_fds |-> map_fds, hooks |-> hooks]

\* UsdtBuilder::new: UsdtBuilder::default()
UsdtBuilderNew == UsdtBuilder(<<>>, <<>>, {})

\* A call on the builder, its arguments and result, and the builder before it.
UsdtCall(op, args, res, pre) == [op |-> op, args |-> args, res |-> res, pre |-> pre]

\* A variant of init that stores the hooks before it counts them.
UsdtInitHooksFirst(b, map_fds, hooks) ==
    [b |-> UsdtBuilder(b.links, map_fds, hooks),
     res |-> IF Cardinality(hooks) > 1 THEN "Err" ELSE "Ok"]

\* UsdtBuilder::init: the builder after the call and the result.
UsdtInit(b, map_fds, hooks) ==
    IF Cardinality(hooks) > 1
    THEN [b |-> UsdtBuilder(b.links, map_fds, b.hooks), res |-> "Err"]
    ELSE [b |-> UsdtBuilder(b.links, map_fds, hooks), res |-> "Ok"]

\* UsdtBuilder::attach; loaded tells whether opening, loading and attaching
\* the BPF program succeeded.
UsdtAttach(b, probe, loaded) ==
    IF probe.type # "Usdt" THEN [b |-> b, res |-> "Err"]
    ELSE IF ~loaded THEN [b |-> b, res |-> "Err"]
    ELSE [b |-> UsdtBuilder(Append(b.links, probe.name), b.map_fds, b.hooks),
          res |-> "Ok"]

\* A variant of detach that keeps the first link.
UsdtDetachKeepsOne(b) ==
    [b |-> UsdtBuilder(IF b.links = <<>> THEN <<>> ELSE <<Head(b.links)>>,
                       b.map_fds, b.hooks),
     res |-> "Ok"]

\* UsdtBuilder::detach
UsdtDetach(b) ==
    [b |-> UsdtBuilder(<<>>, b.map_fds, b.hooks), res |-> "Ok"]

UsdtInitState ==
    /\ usdt = UsdtBuilderNew
    /\ usdtLast = UsdtCall("new", <<>>, "Ok", UsdtBuilderNew)
    /\ usdtPrev = UsdtCall("none", <<>>, "Ok", UsdtBuilderNew)
    /\ usdtInitCalled = FALSE
    /\ usdtDetachCalled = FALSE

\* A call of init.
UsdtInitCall ==
    /\ \E map_fds \in MapFds, hooks \in SUBSET Hooks :
        LET r == UsdtInit(usdt, map_fds, hooks) IN
        /\ usdt' = r.b
        /\ usdtLast' = UsdtCall("init", [map_fds |-> map_fds, hooks |-> hooks], r.res, usdt)
    /\ usdtPrev' = usdtLast
    /\ usdtInitCalled' = TRUE
    /\ UNCHANGED usdtDetachCalled
    /\ UNCHANGED <<cliVars, timeVars, fmtVars, pcapVars, sinkVars, inspectVars, textVars>>

\* A call of attach.
UsdtAttachCall ==
    /\ Len(usdt.links) < MaxLinks
    /\ \E probe \in Probes, loaded \in BOOLEAN :
        LET r == UsdtAttach(usdt, probe, loaded) IN
        /\ usdt' = r.b
        /\ usdtLast' = UsdtCall("attach", [probe |-> probe, loaded |-> loaded], r.res, usdt)
    /\ usdtPrev' = usdtLast
    /\ UNCHANGED <<usdtInitCalled, usdtDetachCalled>>
    /\ UNCHANGED <<cliVars, timeVars, fmtVars, pcapVars, sinkVars, inspectVars, textVars>>

\* A call of detach.
UsdtDetachCall ==
    /\ LET r == UsdtDetach(usdt) IN
        /\ usdt' = r.b
        /\ usdtLast' = UsdtCall("detach", <<>>, r.res, usdt)
    /\ usdtPrev' = usdtLast
    /\ usdtDetachCalled' = TRUE
    /\ UNCHANGED usdtInitCalled
    /\ UNCHANGED <<cliVars, timeVars, fmtVars, pcapVars, sinkVars, inspectVars, textVars>>

(***************************************************************************)
(* inspect_symbol.                                                         *)
(*                                                                         *)
(* Symbol::parameter_offset(type) returns Ok(None), Ok(Some(offset)) with  *)
(* an unsigned offset, or Err.                                             *)
(***************************************************************************)
\* The offsets BTF reports: around the ends of the range of a signed byte.
OffsetInputs == {0, 127, 128, 255}

NoOffset == [kind |-> "None", off |-> 0]
LookupErr == [kind |-> "Err", off |-> 0]
SomeOffset(off) == [kind |-> "Some", off |-> off]

\* What a lookup that does not fail returns.
Found == {NoOffset} \cup {SomeOffset(off) : off \in OffsetInputs}

\* offset as i8
AsI8(off) ==
    LET low == off % 256 IN
    IF low >= 128 THEN low - 256 ELSE low

\* The offset of a parameter that is absent, in retis_probe_config::default().
Absent == -1

\* A variant of drop_reason_offset that looks for the types in another order.
DropReasonTypesOvsFirst ==
    <<"enum ovs_drop_reason", "enum mac80211_drop_reason", "enum skb_drop_reason">>

\* The types drop_reason_offset looks for, in the order it does.
DropReasonTypes ==
    <<"enum skb_drop_reason", "enum mac80211_drop_reason", "enum ovs_drop_reason">>

DropReasonNames == {DropReasonTypes[i] : i \in DOMAIN DropReasonTypes}

\* The fields of cfg.offsets filled from one type, in the order of
\* inspect_symbol, with the type each is found by.
PlainFields == {"sk_buff", "net_device", "net", "nft_pktinfo", "nft_traceinfo"}

TypeOfField(field) ==
    CASE field = "sk_buff" -> "struct sk_buff *"
      [] field = "net_device" -> "struct net_device *"
      [] field = "net" -> "struct net *"
      [] field = "nft_pktinfo" -> "struct nft_pktinfo *"
      [] field = "nft_traceinfo" -> "struct nft_traceinfo *"

\* What inspect_symbol does after the field.
NextField(field) ==
    CASE field = "sk_buff" -> "skb_drop_reason"
      [] field = "skb_drop_reason" -> "net_device"
      [] field = "net_device" -> "net"
      [] field = "net" -> "nft_pktinfo"
      [] field = "nft_pktinfo" -> "nft_traceinfo"
      [] field = "nft_traceinfo" -> "done"

\* retis_probe_config::default().offsets
DefaultOffsets == [f \in PlainFields \cup {"skb_drop_reason"} |-> Absent]

InspectInit ==
    /\ insPc = "idle"
    /\ insDrop = 0
    /\ insSym = [n \in DropReasonNames |-> NoOffset]
    /\ insCfg = DefaultOffsets
    /\ insSeen = <<>>

\* inspect_symbol is called on a symbol.
InspectStart ==
    /\ insPc = "idle"
    /\ insPc' = "sk_buff"
    /\ insSym' \in [DropReasonNames -> Found \cup {LookupErr}]
    /\ insCfg' = DefaultOffsets
    /\ UNCHANGED <<insDrop, insSeen>>
    /\ UNCHANGED <<cliVars, timeVars, fmtVars, pcapVars, sinkVars, usdtVars, textVars>>

\* if let Some(offset) = symbol.parameter_offset(..)? { cfg.offsets.f = offset as i8 }
InspectParam ==
    /\ insPc \in PlainFields
    /\ \E r \in Found :
        /\ insSeen' = Append(insSeen, [type |-> TypeOfField(insPc), res |-> r])
        /\ insCfg' = IF r.kind = "Some"
                     THEN [insCfg EXCEPT ![insPc] = AsI8(r.off)]
                     ELSE insCfg
    /\ insPc' = NextField(insPc)
    /\ insDrop' = IF NextField(insPc) = "skb_drop_reason" THEN 1 ELSE 0
    /\ UNCHANGED insSym
    /\ UNCHANGED <<cliVars, timeVars, fmtVars, pcapVars, sinkVars, usdtVars, textVars>>

\* The same with parameter_offset returning Err: ? returns it.
InspectParamFails ==
    /\ insPc \in PlainFields
    /\ insSeen' = Append(insSeen, [type |-> TypeOfField(insPc), res |-> LookupErr])
    /\ insPc' = "failed"
    /\ UNCHANGED <<insDrop, insSym, insCfg>>
    /\ UNCHANGED <<cliVars, timeVars, fmtVars, pcapVars, sinkVars, usdtVars, textVars>>

\* One arm of drop_reason_offset: the type is found, or the next one is tried.
DropReasonLookup ==
    /\ insPc = "skb_drop_reason"
    /\ LET type == DropReasonTypes[insDrop]
           r == insSym[type]
       IN /\ r \in Found
          /\ insSeen' = Append(insSeen, [type |-> type, res |-> r])
          /\ IF r.kind = "Some"
             THEN /\ insCfg' = [insCfg EXCEPT !["skb_drop_reason"] = AsI8(r.off)]
                  /\ insPc' = NextField(insPc)
                  /\ insDrop' = 0
             ELSE /\ insCfg' = insCfg
                  /\ IF insDrop < Len(DropReasonTypes)
                     THEN insPc' = insPc /\ insDrop' = insDrop + 1
                     ELSE insPc' = NextField(insPc) /\ insDrop' = 0
    /\ UNCHANGED insSym
    /\ UNCHANGED <<cliVars, timeVars, fmtVars, pcapVars, sinkVars, usdtVars, textVars>>

\* The same with parameter_offset returning Err.
DropReasonLookupFails ==
    /\ insPc = "skb_drop_reason"
    /\ insSym[DropReasonTypes[insDrop]] = LookupErr
    /\ insSeen' = Append(insSeen, [type |-> DropReasonTypes[insDrop], res |-> LookupErr])
    /\ insPc' = "failed"
    /\ UNCHANGED <<insDrop, insSym, insCfg>>
    /\ UNCHANGED <<cliVars, timeVars, fmtVars, pcapVars, sinkVars, usdtVars, textVars>>

(***************************************************************************)
(* Claims about parse_cli_probe, checked under CliSpec.                    *)
(***************************************************************************)
Returned == cliResult.st # "none"

\* The positions of ':' in s.
ColonsOf(s) == {i \in DOMAIN s : s[i] = Colon}

\* s has a ':' and the text before its first ':' is the name p.
HasTypePrefix(s, p) ==
    \E i \in ColonsOf(s) :
        /\ \A j \in ColonsOf(s) : i <= j
        /\ SubSeq(s, 1, i - 1) = p

UnknownPrefix(s) ==
    /\ ColonsOf(s) # {}
    /\ \A p \in KnownTypeNames : ~HasTypePrefix(s, p)

\* C1, as stated: an input whose text before the first ':' is not a known
\* type name ("xyz:foo") returns a parse error and no (type, target) pair.
C1_UnknownPrefixIsError ==
    (Returned /\ UnknownPrefix(cliInput)) => cliResult.st = "err"

\* C1, amended: parse_cli_probe returns a parse error exactly when the text
\* before the first ':' is not a known type name and the input holds two or
\* more ':'; with a single ':' ("xyz:foo") it returns a pair and no error.
C1_ErrorIffUnknownPrefixAndSeveralColons ==
    Returned =>
        (cliResult.st = "err"
            <=> (UnknownPrefix(cliInput) /\ Cardinality(ColonsOf(cliInput)) >= 2))

C1_Witness ==
    /\ cliInput = <<"x", "y", "z", ":", "f", "o", "o", ":", "b", "a", "r">>
    /\ cliResult.st = "err"

TypeOfName(p) ==
    IF p \in KprobeNames THEN "Kprobe"
    ELSE IF p \in KretprobeNames THEN "Kretprobe"
    ELSE "RawTracepoint"

\* C2: an input without ':' maps to (Kprobe, whole input); an input whose text
\* before the first ':' is a known type name maps to that type and to
\* everything after the first ':', further ':' included.
C2_KnownTypeAndTarget ==
    Returned =>
        /\ ColonsOf(cliInput) = {} => cliResult = CliOk("Kprobe", cliInput)
        /\ \A p \in KnownTypeNames :
              HasTypePrefix(cliInput, p) =>
                 /\ cliResult.st = "ok"
                 /\ cliResult.type = TypeOfName(p)
                 /\ cliInput = p \o <<Colon>> \o cliResult.target

C2_Witness ==
    /\ cliInput = <<"t", "p", ":", "s", "k", "b", ":", "k", "f", "r", "e", "e", "_", "s", "k", "b">>
    /\ cliResult = CliOk("RawTracepoint",
                         <<"s", "k", "b", ":", "k", "f", "r", "e", "e", "_", "s", "k", "b">>)

\* C25: for an input whose text before the first ':' is not a known type
\* name, parse_cli_probe returns (RawTracepoint, the entire input) when the
\* input holds exactly one ':' and a parse error when it holds two or more.
C25_UnknownPrefixByColons ==
    (Returned /\ UnknownPrefix(cliInput)) =>
        IF Cardinality(ColonsOf(cliInput)) = 1
        THEN cliResult = CliOk("RawTracepoint", cliInput)
        ELSE cliResult.st = "err"

C25_Witness ==
    /\ cliInput = <<"s", "k", "b", ":", "k", "f", "r", "e", "e", "_", "s", "k", "b">>
    /\ cliResult = CliOk("RawTracepoint", cliInput)

(***************************************************************************)
(* Claims about TimeSpec, checked under TimeSpecSpec.                      *)
(***************************************************************************)
Normalized(t) == 0 <= t.nsec /\ t.nsec < NSECS_IN_SEC

\* The normalized pair whose total is sec * 10^9 + nsec: the quotient and the
\* remainder of the floor division of nsec are carried into sec.
PairOfTotal(sec, nsec) ==
    TimeSpec(sec + (nsec \div NSECS_IN_SEC), nsec % NSECS_IN_SEC)

\* C3: every value returned by TimeSpec::new, for any pair of integers, and
\* every value obtained from such values by add and sub, has
\* 0 <= nsec < 10^9.
C3_NsecNormalized ==
    tsOp.op \in {"newA", "newB", "add", "sub"} => Normalized(tsR)

\* C4: for all values a and b that TimeSpec::new can build, (a + b) - b is
\* equal to a field by field.
C4_AddSubRoundTrip ==
    tsOp.op = "addsub" => tsR = tsA

\* The round trip restricted to normalized operands.
C4_RoundTripOfNormalized ==
    (tsOp.op = "addsub" /\ Normalized(tsA) /\ Normalized(tsB)) => tsR = tsA

\* C5: arithmetic is exact in total nanoseconds: for nsec >= 0, new(sec, nsec)
\* is (sec + nsec div 10^9, nsec mod 10^9); for normalized a and b, a + b and
\* a - b are the normalized pairs of the sum and the difference of the totals.
C5_ExactInTotalNanoseconds ==
    /\ (tsOp.op \in {"newA", "newB"} /\ tsOp.nsec >= 0) =>
          tsR = PairOfTotal(tsOp.sec, tsOp.nsec)
    /\ (tsOp.op = "add" /\ Normalized(tsA) /\ Normalized(tsB)) =>
          tsR = PairOfTotal(tsA.sec + tsB.sec, tsA.nsec + tsB.nsec)
    /\ (tsOp.op = "sub" /\ Normalized(tsA) /\ Normalized(tsB)) =>
          tsR = PairOfTotal(tsA.sec - tsB.sec, tsA.nsec - tsB.nsec)

C5_Witness ==
    /\ tsOp.op = "sub"
    /\ tsA = TimeSpec(5, 0)
    /\ tsB = TimeSpec(0, 1)
    /\ tsR = TimeSpec(4, 999999999)

(***************************************************************************)
(* Claims about the Formatter, checked under FormatterSpec.                *)
(***************************************************************************)
TextOf(input) == [i \in 1..Len(input) |-> input[i].c]

\* Every character was written while conf.level was l.
WrittenAtLevel(l) == \A i \in 1..Len(fInput) : fInput[i].level = l

\* The text with l spaces put before the first character of every line.
RECURSIVE Indented(_, _, _)
Indented(text, l, atLineStart) ==
    IF text = <<>> THEN <<>>
    ELSE (IF atLineStart THEN Repeat(SP, l) ELSE <<>>)
         \o <<Head(text)>>
         \o Indented(Tail(text), l, Head(text) = NL)

\* C6: a Formatter created at level L that is given newline-terminated lines
\* and is then dropped writes each line prefixed by exactly L spaces and
\* terminated by one newline, and nothing else.
C6_IndentedLinesOnly ==
    (/\ fPc = "dropped"
     /\ fConf.saved_levels = <<>>
     /\ WrittenAtLevel(fConf.level)
     /\ EndsWith(TextOf(fInput), NL))
        => fInner = Indented(TextOf(fInput), fConf.level, TRUE)

\* The written characters, each one that begins a line preceded by as many
\* spaces as conf.level was when it was written.
RECURSIVE IndentedByLevels(_, _)
IndentedByLevels(input, atLineStart) ==
    IF input = <<>> THEN <<>>
    ELSE (IF atLineStart THEN Repeat(SP, Head(input).level) ELSE <<>>)
         \o <<Head(input).c>>
         \o IndentedByLevels(Tail(input), Head(input).c = NL)

\* C26: after any writes and changes of conf.level followed by the drop, the
\* inner sink holds every written character once and in order and, besides
\* them, only the indentation at the start of the lines, each line indented
\* by the level in effect when it was begun: no newline is added or lost.
C26_InnerIsInputIndented ==
    fPc = "dropped" => fInner = IndentedByLevels(fInput, TRUE)

(***************************************************************************)
(* Claims about FormatterConf, checked under ConfSpec.                     *)
(***************************************************************************)
\* C21: reset_level restores the level that was in effect just before the
\* matching inc_level, last in first out, so inc_level(d) followed by
\* reset_level() leaves the conf as it was; with no saved level reset_level
\* leaves level and stack unchanged.
C21_ResetRestoresMatchingLevel ==
    cLast.op = "reset_level" =>
        /\ cLast.pre.saved_levels # <<>> =>
              /\ Len(cMatch) = Len(cLast.pre.saved_levels) - 1
              /\ cConf.level = cLast.pre.saved_levels[Len(cLast.pre.saved_levels)]
              /\ cConf.saved_levels = cMatch
        /\ cPrev.op = "inc_level" => cConf = cPrev.pre
        /\ cLast.pre.saved_levels = <<>> => cConf = cLast.pre

C21_Witness ==
    /\ cLast.op = "reset_level"
    /\ cPrev.op = "inc_level"
    /\ cPrev.diff = 2
    /\ cPrev.pre = FormatterConf(1, <<0>>)
    /\ cConf = FormatterConf(1, <<0>>)

(***************************************************************************)
(* Claims about parse_ipv4_addr, checked under Ipv4Spec.                   *)
(***************************************************************************)
\* The decimal numeral of n, without leading zeros.
RECURSIVE DecimalOf(_)
DecimalOf(n) ==
    IF n < 10 THEN <<DigitChars[n + 1]>>
    ELSE DecimalOf(n \div 10) \o <<DigitChars[(n % 10) + 1]>>

\* C24: for every 32-bit value parse_ipv4_addr succeeds and returns the four
\* octets, most significant first, in decimal without leading zeros and
\* separated by dots.
C24_DottedDecimalNeverFails ==
    ipRes # NoAddr =>
        /\ ipRes.st = "ok"
        /\ ipRes.addr = DecimalOf(ipRaw.hi \div 256) \o <<".">>
                        \o DecimalOf(ipRaw.hi % 256) \o <<".">>
                        \o DecimalOf(ipRaw.lo \div 256) \o <<".">>
                        \o DecimalOf(ipRaw.lo % 256)
        /\ ipRaw = U32(1 * 256 + 2, 3 * 256 + 4) =>
              ipRes.addr = <<"1", ".", "2", ".", "3", ".", "4">>
        /\ ipRaw = U32(0, 0) => ipRes.addr = <<"0", ".", "0", ".", "0", ".", "0">>
        /\ ipRaw = U32(255 * 256, 1) =>
              ipRes.addr = <<"2", "5", "5", ".", "0", ".", "0", ".", "1">>

C24_Witness ==
    /\ ipRaw = U32(255 * 256 + 0, 101 * 256 + 1)
    /\ ipRes = AddrOk(<<"2","5","5",".","0",".","1","0","1",".","1">>)

(***************************************************************************)
(* Claims about DelimWriter and SkbEvent::event_fmt, checked under SkbSpec.*)
(***************************************************************************)
SkbDone == skPc = "done"
SingleLine == ~skFormat.multiline

\* The texts of the sections that wrote something, in the order written.
RenderedTexts ==
    LET shown == SelectSeq(skEmitted, LAMBDA e : e.text # <<>>) IN
    [i \in 1..Len(shown) |-> shown[i].text]

SectionRank(sec) ==
    CASE sec = "ns" -> 1
      [] sec = "dev" -> 2
      [] sec = "vlan" -> 3
      [] sec = "skb" -> 4
      [] sec = "gso" -> 5
      [] sec = "break" -> 6
      [] sec = "packet" -> 7

\* C22: in single-line text without link-layer data the rendered sub-records
\* come in the order ns, dev, skb [meta, data_ref], gso, packet, consecutive
\* ones separated by one space; an absent packet is the final token
\* "unknown packet"; ns 42, dev (3, "eth0"), meta (ip_summed 2, csum 0x1234,
\* len 54) gives the text of the example.
C22_SectionsInOrderOneSpaceApart ==
    (SkbDone /\ SingleLine /\ ~skFormat.print_ll
        /\ skEmitted[Len(skEmitted)].text # <<>>) =>
        /\ skOut = JoinWith(RenderedTexts, <<SP>>)
        /\ \A i \in 1..(Len(skEmitted) - 1) :
              SectionRank(skEmitted[i].sec) < SectionRank(skEmitted[i + 1].sec)
        /\ ~skEvent.packet.some =>
              /\ skEmitted[Len(skEmitted)].text = UnknownPacketText
              /\ SubSeq(skOut, Len(skOut) - Len(UnknownPacketText) + 1, Len(skOut))
                    = UnknownPacketText
        /\ skEvent = SkbEvent(Some([netns |-> 42]),
                              Some([ifindex |-> 3, name |-> <<"e", "t", "h", "0">>,
                                    rx_ifindex |-> None]),
                              None, SkbMetaEvent(2, 4660, 0, 0), None, None, None) =>
              skOut = <<"n", "s", " ", "4", "2", " ", "i", "f", " ", "3", " ", "(", "e", "t", "h", "0", ")", " ", "s", "k", "b", " ", "[", "c", "s", "u", "m", " ", "c", "o", "m", "p", "l", "e", "t", "e", " ", "(", "0", "x", "1", "2", "3", "4", ")", " ", "l", "e", "n", " ", "5", "4", " ", "p", "r", "i", "o", "r", "i", "t", "y", " ", "0", "]", " ", "u", "n", "k", "n", "o", "w", "n", " ", "p", "a", "c", "k", "e", "t">>

\* C23: a write of a DelimWriter emits nothing when it is the first since the
\* writer was created or reset and emits the delimiter otherwise; used() is
\* true exactly when write was called since then; so in multi-line rendering
\* the packet line starts without a delimiter.
C23_DelimOnlyAfterFirstWrite ==
    /\ \A i \in 1..Len(skEmitted) :
          skEmitted[i].sec # "break" =>
              skEmitted[i].delim = IF skEmitted[i].nth = 0 THEN <<>> ELSE <<SP>>
    /\ DelimUsed(skSpace) <=> skWrites > 0
    /\ \A i \in 2..Len(skEmitted) :
          skEmitted[i - 1].sec = "break" => skEmitted[i].delim = <<>>
    /\ (SkbDone /\ Len(skEmitted) >= 2 /\ skEmitted[Len(skEmitted) - 1].sec = "break") =>
          LET n == Len(skEmitted[Len(skEmitted)].text) IN
          skOut[Len(skOut) - n] = NL

C23_Witness ==
    /\ SkbDone
    /\ skFormat.multiline
    /\ Len(skEmitted) = 4
    /\ skEmitted[1].delim = <<>>
    /\ skEmitted[2].delim = <<SP>>
    /\ skEmitted[3].sec = "break"
    /\ skEmitted[4].sec = "packet"
    /\ skEmitted[4].delim = <<>>
    /\ skEmitted[4].text = PacketLine

\* "partial (start S off O) " for csum = (S << 16) | O
PartialAsDocumented(csum) ==
    <<"p", "a", "r", "t", "i", "a", "l", " ", "(", "s", "t", "a", "r", "t", " ">> \o DecimalOf(csum \div 65536) \o <<" ", "o", "f", "f", " ">>
    \o DecimalOf(csum % 65536) \o <<")", " ">>

\* C27: with ip_summed = 3 the skb section shows "partial (start S off O)"
\* where csum = (S << 16) | O, S the upper and O the lower 16 bits.
C27_PartialStartIsUpperHalf ==
    \A i \in 1..Len(skEmitted) :
        (skEmitted[i].sec = "skb" /\ skEvent.meta.some /\ skEvent.meta.ip_summed = 3) =>
            LET prefix == <<"s", "k", "b", " ", "[", "c", "s", "u", "m", " ">> \o PartialAsDocumented(skEvent.meta.csum) IN
            SubSeq(skEmitted[i].text, 1, Len(prefix)) = prefix

\* C29: the single-line text of an SkbEvent does not start with a space and
\* has no two consecutive spaces, whatever sub-records are present.
C29_NoStraySpace ==
    (SkbDone /\ SingleLine) =>
        /\ skOut # <<>> => skOut[1] # SP
        /\ \A i \in 1..(Len(skOut) - 1) : ~(skOut[i] = SP /\ skOut[i + 1] = SP)

(***************************************************************************)
(* Claims about the tcpdump dispatcher, checked under Spec and FairSpec.   *)
(***************************************************************************)
InChild == {"write", "read"}

\* The renderer has returned from event_fmt of an event that had a packet.
RenderedPacket(t) ==
    pc[t] = "idle" /\ ret[t].res = "Ok" /\ ret[t].err # "NoPacket"

\* C7: every packet render eventually completes: once the record is written
\* the read loop terminates and the lock is released, whatever the length of
\* the child's response.
C7_RenderCompletes ==
    \A t \in Renderers :
        (pc[t] = "read") ~> (pc[t] # "read" /\ mutex.holder # t)

\* C8: no outcome of the dispatcher's I/O (a failed read, an end of file, a
\* lock left by a failed renderer) makes a renderer panic.
C8_NoPanic ==
    \A t \in Renderers : pc[t] # "panicked"

\* The error cases of a rendered packet: Tcpdump::new failing writes
\* "unknown packet", BrokenPipe writes nothing, any other error of
\* display_event writes "unknown packet" (after what was already written),
\* and event_fmt returns Ok.
C9_ErrorsHandled ==
    \A t \in Renderers :
        (pc[t] = "idle" /\ ret[t].err \in {"Init", "BrokenPipe", "Io", "Utf8"}) =>
            /\ ret[t].res = "Ok"
            /\ ret[t].err = "Init" => out[t] = <<UnknownPacket>>
            /\ ret[t].err = "BrokenPipe" => out[t] = <<>>
            /\ ret[t].err \in {"Io", "Utf8"} =>
                  /\ out[t] # <<>>
                  /\ \A i \in 1..Len(out[t]) :
                        (out[t][i] = UnknownPacket) <=> (i = Len(out[t]))

\* C9, as stated: the error cases, and once the dispatcher could not be
\* created "unknown packet" is what this and every later packet renders as.
C9_UnknownPacketEverAfter ==
    /\ C9_ErrorsHandled
    /\ initFailedAt > 0 =>
          \A t \in Renderers :
              (RenderedPacket(t) /\ pkt[t] > initFailedAt) => out[t] = <<UnknownPacket>>

\* C9, amended: the error cases; a failed creation writes "unknown packet"
\* for the event that attempted it, and later events attempt it again.
C9_ErrorsHandledPerEvent ==
    /\ C9_ErrorsHandled
    /\ \A t \in Renderers :
          (RenderedPacket(t) /\ cell = "empty") =>
              (ret[t].err = "Init" /\ out[t] = <<UnknownPacket>>)

C9_Witness ==
    \E t, u \in Renderers :
        /\ RenderedPacket(t) /\ ret[t].err = "Init" /\ out[t] = <<UnknownPacket>>
        /\ RenderedPacket(u) /\ ret[u].err = "BrokenPipe" /\ out[u] = <<>>
        /\ pkt[t] < pkt[u]

\* C10: a renderer's write to the child and the reads that follow happen
\* under one lock: a renderer between its write and its last read holds the
\* mutex and no other renderer is writing to or reading from the child.
C10_OneRendererAtATime ==
    \A t \in Renderers :
        pc[t] \in InChild =>
            /\ mutex.holder = t
            /\ \A u \in Renderers \ {t} : pc[u] \notin InChild

C10_Witness ==
    \E t, u \in Renderers :
        /\ pc[t] = "read"
        /\ mutex.holder = t
        /\ pc[u] = "lock"
        /\ pkt[t] \in {stdin[i] : i \in 2..Len(stdin)}

\* What holds of the dispatcher in every state: it exists exactly when the
\* cell is set, a renderer past tcpdump() has it, and the stdin of its child
\* starts with the one pcap file header, followed by packet records only.
C11_OneChildOneHeader ==
    /\ (cell = "set") <=> (child # 0)
    /\ child = 0 => (stdin = <<>> /\ ~childAlive)
    /\ child # 0 =>
          /\ stdin # <<>>
          /\ \A i \in 1..Len(stdin) : (stdin[i] = PcapHeader) <=> (i = 1)
    /\ \A t \in Renderers : pc[t] \in {"lock", "write", "read"} => child # 0

\* C11: the pcap dispatcher is a process-wide singleton created lazily: a
\* child is spawned only by a renderer that renders a packet, the renders
\* share the one child the dispatcher holds, which is never replaced, and
\* the pcap file header is written to its stdin once, before any record.
C11_LazySingleton ==
    /\ []C11_OneChildOneHeader
    /\ [][nSpawned' # nSpawned =>
             \E t \in Renderers : pc[t] = "tcpdump" /\ pkt[t] > 0 /\ pc'[t] # pc[t]]_vars
    /\ [][child # 0 => child' = child]_vars

C11_Witness ==
    /\ child # 0
    /\ \E t, u \in Renderers :
          /\ t # u
          /\ stdin = <<PcapHeader, pkt[u], pkt[t]>>
          /\ RenderedPacket(u)
          /\ pc[t] = "read"

\* display_event has returned to the renderer, with Ok or with an error,
\* after it wrote the record of the packet.
DisplayEventReturned(t) ==
    /\ pc[t] = "idle"
    /\ ret[t].res = "Ok"
    /\ ret[t].err \in {"none", "Utf8"}

\* The bytes of the responses to packet p the child holds or has in the pipe.
UnreadOf(p) ==
    {i \in 1..Len(pipe) : pipe[i].pkt = p} \cup {i \in 1..Len(todo) : todo[i].pkt = p}

\* C30: when a packet render returns, no byte of the child's response to
\* that packet is left unread, and the text emitted for a packet is made of
\* the response to that same packet only.
C30_ResponseReadWhole ==
    \A t \in Renderers :
        DisplayEventReturned(t) =>
            /\ UnreadOf(pkt[t]) = {}
            /\ \A i \in 1..Len(out[t]) :
                  out[t][i].kind = "bytes" => out[t][i].pkt = pkt[t]

(***************************************************************************)
(* Claims about the sinks, checked under SinkSpec.                         *)
(***************************************************************************)
\* PrintSeries::process_one has returned from a series in a text format.
SeriesTextDone == printer = "series" /\ prFormat \in TextFormats /\ srPc = "done"

\* The lines of the text, the first prefixed by first and the others by rest.
PrefixedText(text, first, rest) ==
    LET lines == Split(text, NL) IN
    JoinWith([i \in 1..Len(lines) |->
                 (IF i = 1 THEN first ELSE rest) \o lines[i]], <<NL>>)

FourSpaces == <<SP, SP, SP, SP>>

\* The text of the i-th event of a group as the specification lays it out.
LaidOut(g, i) ==
    IF i = 1 THEN Display(g[i])
    ELSE PrefixedText(Display(g[i]), FourSpaces \o <<"+", SP>>, FourSpaces \o <<SP, SP>>)

\* C12: in the text output of a group whose events all render non-empty, the
\* first event is at indent 0, the first line of every later event is
\* prefixed by four spaces then "+ " and each of its continuation lines by
\* four spaces then "  ".
C12_LaterEventsAfterFourSpaces ==
    (/\ SeriesTextDone
     /\ srGroup # <<>>
     /\ \A i \in 1..Len(srGroup) : Display(srGroup[i]) # <<>>)
        => srWritten =
              JoinWith([i \in 1..Len(srGroup) |-> LaidOut(srGroup, i) \o <<NL>>], <<>>)
              \o <<NL>>

\* The events of the group that render non-empty, in group order, each as
\* PrintSeries::indent returns it: the first of them at indent 0.
RECURSIVE ShownTexts(_, _)
ShownTexts(g, n_spaces) ==
    IF g = <<>> THEN <<>>
    ELSE IF Display(Head(g)) = <<>> THEN ShownTexts(Tail(g), n_spaces)
    ELSE <<SeriesIndentText(n_spaces, Display(Head(g)))>>
         \o ShownTexts(Tail(g), SeriesIndent)

\* C13: the text output of a group is the texts of its events in group
\* order, each ended by one newline, then one blank line; an event that
\* renders empty adds no blank line, and nothing is written when every event
\* renders empty.
C13_OneBlankLineAtEnd ==
    SeriesTextDone =>
        LET texts == ShownTexts(srGroup, 0) IN
        srWritten =
            IF texts = <<>> THEN <<>>
            ELSE JoinWith([i \in 1..Len(texts) |-> texts[i] \o <<NL>>], <<>>) \o <<NL>>

\* What the events es add to the writer of a PrintSingle, in the order of the
\* calls.
RECURSIVE SingleOutputs(_, _)
SingleOutputs(format, es) ==
    IF es = <<>> THEN <<>>
    ELSE LET text == Display(Head(es))
             one == IF format = "Json" THEN ToJson(Head(es)) \o <<NL>>
                    ELSE IF text = <<>> THEN <<>>
                    ELSE IF format = "SingleLine" THEN text \o <<NL>>
                    ELSE text \o <<NL, NL>>
         IN one \o SingleOutputs(format, Tail(es))

\* C14: PrintSingle writes the outputs in the order of the calls: in text mode
\* the text followed by "\n" (single-line) or "\n\n" (multi-line) for an
\* event that renders non-empty and nothing for one that renders empty, in
\* JSON mode the JSON projection followed by "\n".
C14_SingleOutputsInOrder ==
    printer = "single" => prWriter = SingleOutputs(prFormat, prEvents)

C14_Witness ==
    /\ printer = "single"
    /\ prFormat = "MultiLine"
    /\ prEvents = << <<>>, << <<"a">>, <<"b">> >> >>
    /\ prWriter = <<"a", NL, "b", NL, NL>>

\* C28: the monotonic_offset in effect while a text sink renders an event is
\* the clock_monotonic_offset of that event's MdCommon section, and an event
\* without MdCommon is not rendered with the offset of an earlier event.
C28_OffsetIsTheEventsOwn ==
    prLast.rendered =>
        IF prLast.md.some
        THEN prLast.used = Some([v |-> prLast.md.clock_monotonic_offset])
        ELSE prLast.used = None

(***************************************************************************)
(* Claims about UsdtBuilder, checked under UsdtSpec.                       *)
(***************************************************************************)
\* C15: the lifecycle Fresh, Initialized, Attached, Detached is enforced: an
\* attach on a builder on which init was never called, or on which detach
\* was called, fails and adds no link.
C15_LifecycleEnforced ==
    (usdtLast.op = "attach" /\ (~usdtInitCalled \/ usdtDetachCalled)) =>
        (usdtLast.res = "Err" /\ usdt.links = usdtLast.pre.links)

\* The number of links of the builder that attach the probe named n.
LinksOf(b, n) == Cardinality({i \in 1..Len(b.links) : b.links[i] = n})

\* C16: the builder holds at most one link per probe; a successful attach
\* adds one link and a failed attach adds none.
C16_OneLinkPerProbe ==
    /\ \A probe \in Probes : LinksOf(usdt, probe.name) <= 1
    /\ usdtLast.op = "attach" =>
          /\ Len(usdt.links) = Len(usdtLast.pre.links)
                                  + (IF usdtLast.res = "Ok" THEN 1 ELSE 0)
          /\ usdtLast.args.probe.type # "Usdt" => usdtLast.res = "Err"

\* C17: detach returns Ok and leaves no link, with map_fds and hooks as they
\* were; a second detach returns Ok and changes nothing.
C17_DetachDropsAllAndIsIdempotent ==
    usdtLast.op = "detach" =>
        /\ usdtLast.res = "Ok"
        /\ usdt.links = <<>>
        /\ usdt.map_fds = usdtLast.pre.map_fds
        /\ usdt.hooks = usdtLast.pre.hooks
        /\ usdtPrev.op = "detach" => usdt = usdtLast.pre

C17_Witness ==
    /\ usdtLast.op = "detach"
    /\ usdtPrev.op = "detach"
    /\ Len(usdtPrev.pre.links) = 2
    /\ usdt = UsdtBuilder(<<>>, <<"m1">>, {"h1"})

\* C18: init returns an error exactly when it is given more than one hook:
\* given zero or one hook it returns Ok and the builder holds the given
\* map_fds and hooks; a rejected init leaves the hooks registered before.
C18_InitRejectsSeveralHooks ==
    usdtLast.op = "init" =>
        /\ (usdtLast.res = "Err") <=> (Cardinality(usdtLast.args.hooks) > 1)
        /\ usdtLast.res = "Ok" =>
              /\ usdt.map_fds = usdtLast.args.map_fds
              /\ usdt.hooks = usdtLast.args.hooks
        /\ usdtLast.res = "Err" => usdt.hooks = usdtLast.pre.hooks

C18_Witness ==
    /\ usdtLast.op = "init"
    /\ usdtLast.args.hooks = {"h1", "h2"}
    /\ usdtLast.res = "Err"
    /\ usdtPrev.op = "init"
    /\ usdtPrev.res = "Ok"
    /\ usdt.hooks = {"h1"}

(***************************************************************************)
(* Claims about inspect_symbol, checked under InspectSpec.                 *)
(***************************************************************************)
\* The field of cfg.offsets a type is stored in.
FieldOfType(type) ==
    IF \E f \in PlainFields : TypeOfField(f) = type
    THEN CHOOSE f \in PlainFields : TypeOfField(f) = type
    ELSE "skb_drop_reason"

ValidOffsets == 0..127

\* C19: no offset outside [0, 127] is stored for a parameter that was found:
\* an offset reported outside [0, 127] makes the inspection fail, so what is
\* stored for a found parameter is never -1 nor another negative value.
C19_FoundOffsetsInRange ==
    \A i \in 1..Len(insSeen) :
        insSeen[i].res.kind = "Some" =>
            /\ insCfg[FieldOfType(insSeen[i].type)] \in ValidOffsets
            /\ insSeen[i].res.off \notin ValidOffsets => insPc = "failed"

\* The order in which the drop reason enums are to be tried.
DropReasonOrder ==
    <<"enum skb_drop_reason", "enum mac80211_drop_reason", "enum ovs_drop_reason">>

\* The positions in that order of the types the symbol's prototype has.
PresentDropReasons ==
    {i \in 1..Len(DropReasonOrder) : insSym[DropReasonOrder[i]].kind = "Some"}

\* inspect_symbol is past drop_reason_offset and has not failed.
PastDropReason ==
    insPc \in {"net_device", "net", "nft_pktinfo", "nft_traceinfo", "done"}

Init ==
    /\ CliInit
    /\ TimeInit
    /\ FmtInit
    /\ PcapInit
    /\ SinkInit
    /\ UsdtInitState
    /\ InspectInit
    /\ ConfInit
    /\ Ipv4Init
    /\ SkbInit

CliNext == ParseCliProbe \/ CliReturn
CliSpec == Init /\ [][CliNext]_vars

TimeNext == TsNewA \/ TsNewB \/ TsAdd \/ TsSub \/ TsAddSub \/ TsFeed
TimeSpecSpec == Init /\ [][TimeNext]_vars

FormatterNext == FmtNew \/ FmtWriteStr \/ FmtIncLevel \/ FmtResetLevel \/ FmtDrop
FormatterSpec == Init /\ [][FormatterNext]_vars

SinkNext ==
    \/ PrintSingleNew
    \/ PrintSingleProcessOne
    \/ PrintSeriesNew
    \/ SeriesBegin
    \/ SeriesEvent
    \/ SeriesEnd
    \/ SeriesJson
SinkSpec == Init /\ [][SinkNext]_vars

UsdtNext == UsdtInitCall \/ UsdtAttachCall \/ UsdtDetachCall
UsdtSpec == Init /\ [][UsdtNext]_vars

ConfNext == ConfIncLevel \/ ConfResetLevel
ConfSpec == Init /\ [][ConfNext]_vars

SkbNext ==
    \/ SkbStart
    \/ SkbNs
    \/ SkbDev
    \/ SkbVlan
    \/ SkbMeta
    \/ SkbGso
    \/ SkbBreak
    \/ SkbPacket
SkbSpec == Init /\ [][SkbNext]_vars

Ipv4Next == Ipv4Parse
Ipv4Spec == Init /\ [][Ipv4Next]_vars

InspectNext ==
    \/ InspectStart
    \/ InspectParam
    \/ InspectParamFails
    \/ DropReasonLookup
    \/ DropReasonLookupFails
InspectSpec == Init /\ [][InspectNext]_vars

Next ==
    \/ \E t \in Renderers : RendererStep(t)
    \/ \E t \in Renderers : Failure(t)
    \/ ChildWrite
    \/ ChildExit
Spec == Init /\ [][Next]_vars

\* The threads are scheduled and the child writes the output it has produced;
\* nothing makes a failure or the exit of the child happen.
FairSpec ==
    /\ Spec
    /\ \A t \in Renderers : WF_vars(RendererStep(t))
    /\ WF_vars(ChildWrite)

=============================================================================
